---- MODULE Spec2Model ----
(***************************************************************************)
(* Model of jneug/syno-script-stuff:                                       *)
(*   MusicStation/mssort.py   (threaded music sorter)                      *)
(*   PhotoStation/psthumbs.py (threaded thumbnail generator)               *)
(*   PhotoStation/pssort.py   (process-pool photo sorter)                  *)
(*                                                                         *)
(* Python strings are sequences of one-character strings; None is the      *)
(* record NoneVal, a present string s is Some(s).                           *)
(***************************************************************************)
EXTENDS Naturals, Integers, Sequences, FiniteSets, TLC

(***************************************************************************)
(* Bounds of the model                                                     *)
(***************************************************************************)
NumItems == 2
NumWorkers == 2
NumPhotos == 5
MaxLines == 3
MaxTags == 3
MaxLen == 5

MaxKeywords == 3

(***************************************************************************)
(* Python string primitives                                                *)
(***************************************************************************)
LowerLetters ==
  <<"a","b","c","d","e","f","g","h","i","j","k","l","m",
    "n","o","p","q","r","s","t","u","v","w","x","y","z","ä">>

UpperLetters ==
  <<"A","B","C","D","E","F","G","H","I","J","K","L","M",
    "N","O","P","Q","R","S","T","U","V","W","X","Y","Z","Ä">>

DigitChars == <<"0","1","2","3","4","5","6","7","8","9">>

Range(f) == { f[i] : i \in DOMAIN f }

IndexOf(c, tab) == CHOOSE i \in DOMAIN tab : tab[i] = c

\* str.isalnum() of one character
IsAlnum(c) ==
  c \in Range(LowerLetters) \cup Range(UpperLetters) \cup Range(DigitChars)

\* str.isspace() of one character
IsSpace(c) == c \in {" ", "\t", "\n"}

LowerChar(c) ==
  IF c \in Range(UpperLetters) THEN LowerLetters[IndexOf(c, UpperLetters)] ELSE c

UpperChar(c) ==
  IF c \in Range(LowerLetters) THEN UpperLetters[IndexOf(c, LowerLetters)] ELSE c

\* str.lower()
Lower(s) == [i \in DOMAIN s |-> LowerChar(s[i])]

\* str.upper()
Upper(s) == [i \in DOMAIN s |-> UpperChar(s[i])]

\* s.startswith(p)
StartsWith(s, p) == Len(s) >= Len(p) /\ SubSeq(s, 1, Len(p)) = p

\* s[n:]
Drop(s, n) == IF n >= Len(s) THEN <<>> ELSE SubSeq(s, n + 1, Len(s))

\* s.replace(old, new), old non-empty: left to right, non-overlapping
RECURSIVE Replace(_, _, _)
Replace(s, old, new) ==
  IF s = <<>> THEN <<>>
  ELSE IF StartsWith(s, old) THEN new \o Replace(Drop(s, Len(old)), old, new)
  ELSE <<s[1]>> \o Replace(Tail(s), old, new)

\* s.split(sep) for a one-character separator: always at least one part
RECURSIVE SplitAcc(_, _, _)
SplitAcc(s, sep, cur) ==
  IF s = <<>> THEN <<cur>>
  ELSE IF s[1] = sep THEN <<cur>> \o SplitAcc(Tail(s), sep, <<>>)
  ELSE SplitAcc(Tail(s), sep, Append(cur, s[1]))

Split(s, sep) == SplitAcc(s, sep, <<>>)

\* s.split(): split on runs of whitespace, no empty parts
RECURSIVE SplitWSAcc(_, _)
SplitWSAcc(s, cur) ==
  IF s = <<>> THEN (IF cur = <<>> THEN <<>> ELSE <<cur>>)
  ELSE IF IsSpace(s[1])
       THEN (IF cur = <<>> THEN <<>> ELSE <<cur>>) \o SplitWSAcc(Tail(s), <<>>)
       ELSE SplitWSAcc(Tail(s), Append(cur, s[1]))

SplitWS(s) == SplitWSAcc(s, <<>>)

\* sep.join(parts)
RECURSIVE JoinWith(_, _)
JoinWith(sep, parts) ==
  IF parts = <<>> THEN <<>>
  ELSE IF Len(parts) = 1 THEN parts[1]
  ELSE parts[1] \o sep \o JoinWith(sep, Tail(parts))

\* s.zfill(width): zeros go after a leading sign
RECURSIVE Zeros(_)
Zeros(n) == IF n = 0 THEN <<>> ELSE <<"0">> \o Zeros(n - 1)

\* no padding at all, to compare with
Unpadded(s, width) == s

Zfill(s, width) ==
  IF Len(s) >= width THEN s
  ELSE IF s # <<>> /\ s[1] \in {"+", "-"}
       THEN <<s[1]>> \o Zeros(width - Len(s)) \o Tail(s)
       ELSE Zeros(width - Len(s)) \o s

\* s.strip() (whitespace)
RECURSIVE LStrip(_)
LStrip(s) == IF s # <<>> /\ IsSpace(s[1]) THEN LStrip(Tail(s)) ELSE s

RECURSIVE RStrip(_)
RStrip(s) ==
  IF s # <<>> /\ IsSpace(s[Len(s)]) THEN RStrip(SubSeq(s, 1, Len(s) - 1)) ELSE s

Strip(s) == LStrip(RStrip(s))

\* int(s): the literal is optional whitespace, an optional sign, digits
IntBody(s) == LET t == Strip(s) IN
  IF t # <<>> /\ t[1] \in {"+", "-"} THEN Tail(t) ELSE t

IntOk(s) ==
  /\ IntBody(s) # <<>>
  /\ \A i \in DOMAIN IntBody(s) : IntBody(s)[i] \in Range(DigitChars)

RECURSIVE DigitsValue(_)
DigitsValue(d) ==
  IF d = <<>> THEN 0
  ELSE 10 * DigitsValue(SubSeq(d, 1, Len(d) - 1)) + (IndexOf(d[Len(d)], DigitChars) - 1)

IntValue(s) ==
  LET t == Strip(s) IN
  IF t[1] = "-" THEN 0 - DigitsValue(IntBody(s)) ELSE DigitsValue(IntBody(s))

\* os.path.join(a, b) (posixpath)
PathJoin2(a, b) ==
  IF b # <<>> /\ b[1] = "/" THEN b
  ELSE IF a = <<>> \/ a[Len(a)] = "/" THEN a \o b
  ELSE a \o <<"/">> \o b

\* os.path.splitext(p)[1]: from the last dot of the last component, unless that
\* dot only follows leading dots of the component
LastIndex(s, c) ==
  IF \E i \in DOMAIN s : s[i] = c
  THEN CHOOSE i \in DOMAIN s : s[i] = c /\ \A j \in DOMAIN s : s[j] = c => j <= i
  ELSE 0

SplitExt(p) ==
  LET sepIdx == LastIndex(p, "/")
      dotIdx == LastIndex(p, ".")
  IN IF dotIdx > sepIdx /\ \E k \in (sepIdx + 1)..(dotIdx - 1) : p[k] # "."
     THEN SubSeq(p, dotIdx, Len(p))
     ELSE <<>>

\* os.path.split(p)[1]
BaseName(p) == Drop(p, LastIndex(p, "/"))

(***************************************************************************)
(* Optional values and results of calls that may raise                     *)
(***************************************************************************)
NoneVal == [some |-> FALSE, s |-> <<>>]

Some(str) == [some |-> TRUE, s |-> str]

\* str(x) of an optional string
PyStr(v) == IF v.some THEN v.s ELSE <<"N","o","n","e">>

Returned(v) == [raised |-> "", value |-> v]

Raised(e) == [raised |-> e, value |-> <<>>]

(***************************************************************************)
(* mssort.py: tag reader, sanitizer, placement rules                       *)
(***************************************************************************)
\* the tag list of the music sorter
MusicTags ==
  <<"Artist", "Band", "Album", "Title", "Track", "TrackNumber",
    "PartOfSet", "DiscNumber", "Compilation">>

\* the value stored for one output line
LineValue(line, empty) == IF line = <<"-">> THEN empty ELSE Some(line)

\* the loop over enumerate(exiftool_result.split('\n')): tags[i] of a line
\* beyond the tag list is an IndexError
ReadLines(lines, tags, empty) ==
  IF Len(lines) > Len(tags) THEN Raised("IndexError")
  ELSE Returned([t \in { tags[i] : i \in 1..Len(lines) } |->
         LineValue(lines[CHOOSE i \in 1..Len(lines) : tags[i] = t], empty)])

\* "Add missing keys.."
AddMissing(result, tags) ==
  [t \in DOMAIN result \cup Range(tags) |->
     IF t \in DOMAIN result THEN result[t] ELSE NoneVal]

\* mssort.get_file_tags on the text the tool printed
get_file_tags(output, tags, empty) ==
  LET r == ReadLines(Split(output, "\n"), tags, empty) IN
  IF r.raised # "" THEN r ELSE Returned(AddMissing(r.value, tags))

KeepCharacters == {" ", ".", "_"}

\* a filter that drops nothing, to compare with
KeepAnything(c) == TRUE

SanitizeKeep(c) == IsAlnum(c) \/ c \in KeepCharacters

sanitize(v) ==
  JoinWith(<<" ">>, SplitWS(SelectSeq(PyStr(v), SanitizeKeep)))

\* the artist chosen by mssort.get_new_path
MusicArtist(tags) ==
  IF tags["Band"].some THEN tags["Band"].s
  ELSE IF tags["Compilation"] = Some(<<"1">>) \/ tags["Compilation"] = Some(<<"Y","e","s">>)
       THEN <<"C","o","m","p","i","l","a","t","i","o","n">>
  ELSE IF tags["Artist"].some THEN tags["Artist"].s
  ELSE <<"U","n","k","n","o","w","n">>

MusicAlbum(tags) ==
  IF tags["Album"].some THEN tags["Album"].s ELSE <<"U","n","k","n","o","w","n">>

\* the first letter of the artist as it stands, to compare with
FirstLetter(artist) ==
  LET _artist == SelectSeq(Lower(artist), IsAlnum) IN
  IF _artist # <<>> THEN Upper(<<_artist[1]>>) ELSE <<"#">>

MusicLetter(artist) ==
  LET _artist == SelectSeq(Replace(Lower(artist), <<"t","h","e">>, <<>>), IsAlnum) IN
  IF _artist # <<>> THEN Upper(<<_artist[1]>>) ELSE <<"#">>

\* mssort.get_new_path
get_new_path(file, tags) ==
  PathJoin2(PathJoin2(MusicLetter(MusicArtist(tags)),
                      sanitize(Some(MusicArtist(tags)))),
            sanitize(Some(MusicAlbum(tags))))

\* track after the TrackNumber fallback
MusicTrack(tags) ==
  IF ~tags["Track"].some /\ tags["TrackNumber"].some
  THEN Some(Replace(tags["TrackNumber"].s, <<" ","o","f"," ">>, <<"/">>))
  ELSE tags["Track"]

\* partofset after the DiscNumber fallback
MusicPartOfSet(tags) ==
  IF ~tags["PartOfSet"].some /\ tags["DiscNumber"].some
  THEN Some(Replace(tags["DiscNumber"].s, <<" ","o","f"," ">>, <<"/">>))
  ELSE tags["PartOfSet"]

\* a disc prefix whatever the disc number, to compare with
AlwaysPrefix(parts) == "yes"

\* the disc prefix decision of get_new_name, lines 137-141: "yes", "no" or the
\* ValueError of int()
DiscPrefix(parts) ==
  IF Len(parts) = 1 /\ ~IntOk(parts[1]) THEN "ValueError"
  ELSE IF Len(parts) = 1 /\ IntValue(parts[1]) > 1 THEN "yes"
  ELSE IF ~IntOk(parts[1]) THEN "ValueError"
  ELSE IF IntValue(parts[1]) <= 1 THEN "no"
  ELSE IF ~IntOk(parts[2]) THEN "ValueError"
  ELSE IF IntValue(parts[2]) > 1 THEN "yes" ELSE "no"

\* the track field of get_new_name, lines 134-143
TrackField(tags) ==
  IF MusicTrack(tags).some
  THEN LET track == Zfill(Split(MusicTrack(tags).s, "/")[1], 2)
           parts == Split(MusicPartOfSet(tags).s, "/")
       IN IF tags["PartOfSet"].some
          THEN (IF DiscPrefix(parts) = "ValueError" THEN Raised("ValueError")
                ELSE IF DiscPrefix(parts) = "yes"
                     THEN Returned(parts[1] \o <<"-">> \o track)
                     ELSE Returned(track))
          ELSE Returned(track)
  ELSE Returned(<<"0","0">>)

\* a name that keeps the old name behind a track number, to compare with
StackedName(file, tags) == Returned(<<"0", "0", " ">> \o BaseName(file))

\* mssort.get_new_name
get_new_name(file, tags) ==
  IF TrackField(tags).raised # "" THEN TrackField(tags)
  ELSE Returned(TrackField(tags).value \o <<" ">> \o sanitize(tags["Title"])
                \o Lower(SplitExt(file)))

(***************************************************************************)
(* The inputs of a music run: configuration, files, what the tag tool      *)
(* prints for each file, and which filesystem call is refused for it       *)
(***************************************************************************)
Items == 1..NumItems

Workers == 1..NumWorkers

\* queue values: an item of Items, or the sentinel None put at shutdown
Sentinel == 0

EXTENSIONS == { <<".","m","p","3">>, <<".","m","4","a">> }

Lines(ls) == JoinWith(<<"\n">>, ls)

GoodOutput ==
  Lines(<< <<"a","b">>, <<"-">>, <<"c">>, <<"t">>, <<"1","/","9">>, <<"-">>,
           <<"2","/","2">>, <<"-">>, <<"-">> >>)

OtherOutput ==
  Lines(<< <<"a","b">>, <<"-">>, <<"c">>, <<"u">>, <<"2","/","9">>, <<"-">>,
           <<"1">>, <<"-">>, <<"-">> >>)

\* a PartOfSet value that is no number
BadSetOutput ==
  Lines(<< <<"a","b">>, <<"-">>, <<"c">>, <<"t">>, <<"1","/","9">>, <<"-">>,
           <<"x">>, <<"-">>, <<"-">> >>)

\* one line more than the tags asked for
LongOutput == GoodOutput \o <<"\n", "w">>

\* a file as the run finds it: extension, tool output, refused filesystem call
Profiles ==
  { [ext |-> <<".","m","p","3">>, output |-> GoodOutput, fsfail |-> "none"],
    [ext |-> <<".","M","P","3">>, output |-> OtherOutput, fsfail |-> "none"],
    [ext |-> <<".","m","p","3">>, output |-> GoodOutput, fsfail |-> "makedirs"],
    [ext |-> <<".","m","p","3">>, output |-> OtherOutput, fsfail |-> "rename"],
    [ext |-> <<".","m","p","3">>, output |-> BadSetOutput, fsfail |-> "none"],
    [ext |-> <<".","m","p","3">>, output |-> LongOutput, fsfail |-> "none"] }

RootDir == <<"r">>

SubDir == <<"r","/","s">>

OutDir == <<"o">>

\* odd files sit in the root folder, even files in its subfolder
SourceDir(i) == IF i % 2 = 1 THEN RootDir ELSE SubDir

SourcePath(i, prof) ==
  PathJoin2(SourceDir(i), <<DigitChars[i + 1]>> \o prof.ext)

\* the configurations: PATH a single file, or a folder with -r and -rm
Configs ==
  { [isdir |-> d, recurse |-> r, squash |-> q, outdir |-> o] :
      d \in BOOLEAN, r \in BOOLEAN, q \in BOOLEAN, o \in {NoneVal, Some(OutDir)} }

(***************************************************************************)
(* The filesystem: files (path, content) and directories                   *)
(***************************************************************************)
\* p itself and every directory above it
Ancestors(p) ==
  { SubSeq(p, 1, k - 1) : k \in { j \in 2..Len(p) : p[j] = "/" } } \cup {p}

FilePaths(fl) == { f[1] : f \in fl }

\* os.makedirs(path, exist_ok=True): an OSError when the call is refused or a
\* component of the path is a file
MakeDirsOk(dirs, fl, path, refused) ==
  ~refused /\ Ancestors(path) \cap FilePaths(fl) = {}

MakeDirs(dirs, path) == dirs \cup Ancestors(path)

\* os.rename(src, dst) on POSIX: an OSError when the call is refused, src is
\* missing or dst is a directory; a file at dst is replaced
RenameOk(dirs, fl, src, dst, refused) ==
  ~refused /\ src \in FilePaths(fl) /\ dst \notin dirs

\* a rename that leaves the source in place
RenameCopy(fl, src, dst) ==
  { f \in fl : f[1] # dst } \cup { <<dst, f[2]>> : f \in { g \in fl : g[1] = src } }

Rename(fl, src, dst) ==
  IF src = dst THEN fl
  ELSE { f \in fl : f[1] # src /\ f[1] # dst }
       \cup { <<dst, f[2]>> : f \in { g \in fl : g[1] = src } }

Depth(p) == Cardinality({ j \in DOMAIN p : p[j] = "/" })

Under(p, d) == StartsWith(p, d \o <<"/">>)

\* os.listdir(d) is empty
IsEmptyDir(dirs, fl, d) ==
  /\ \A f \in fl : ~Under(f[1], d)
  /\ \A e \in dirs : ~Under(e, d)

\* the squash pass: os.walk(root, topdown=False) removes the empty folders
\* below root, the deepest first
RECURSIVE SquashFrom(_, _, _, _)
SquashFrom(dirs, fl, root, depth) ==
  IF depth <= Depth(root) THEN dirs
  ELSE SquashFrom(
         { d \in dirs :
             ~(Under(d, root) /\ Depth(d) = depth /\ IsEmptyDir(dirs, fl, d)) },
         fl, root, depth - 1)

\* a pass that removes only the folders that are empty when it starts, to
\* compare with
SquashLeaves(dirs, fl, root) ==
  { d \in dirs : ~(Under(d, root) /\ IsEmptyDir(dirs, fl, d)) }

MaxDepth(dirs) ==
  IF dirs = {} THEN 0
  ELSE CHOOSE n \in { Depth(d) : d \in dirs } : \A d \in dirs : Depth(d) <= n

Squash(dirs, fl, root) == SquashFrom(dirs, fl, root, MaxDepth(dirs))

(***************************************************************************)
(* The state. The music sorter (Spec) and the thumbnail generator          *)
(* (SpecThumbs) are both a main thread, a queue.Queue and worker threads:  *)
(* they share the variables of that machinery. A specification leaves the  *)
(* variables of the other programs at their initial values. The photo     *)
(* sorter (SpecPhoto) is a main process and the processes of a Pool; the   *)
(* tag readers are looked at on their own (SpecTags).                      *)
(***************************************************************************)
VARIABLES
  cfg,        \* mssort: the parsed command line
  files,      \* mssort: the profile of every file of the tree
  fsFiles,    \* mssort: the files on disk: <<path, content>>
  fsDirs,     \* mssort: the directories on disk
  wErr,       \* mssort: the exception a worker's finally block will re-raise
  mpc,        \* where the main thread is
  started,    \* threads started so far (len(threads))
  nput,       \* files the tree walk has looked at
  queue,      \* the queue (MEDIA_QUEUE, media_queue)
  unfinished, \* its unfinished_tasks
  sentPut,    \* sentinels put so far
  tjoined,    \* worker threads the main thread has joined
  wpc,        \* where each worker thread is
  wItem,      \* media_item of each worker
  claims,     \* how often each file was dequeued
  dones,      \* how often task_done was called for each file
  istate,     \* new, enqueued, claimed, succeeded, failed, skipped
  force,      \* psthumbs: cfg.force
  media,      \* psthumbs: the profile of every media file
  failed_files, \* psthumbs: the global list failed_files
  thumbDirs,  \* psthumbs: the files whose thumbnail directory exists
  thumbs,     \* psthumbs: the thumbnail files in each thumbnail directory
  pcfg,       \* pssort: the parsed command line
  photos,     \* pssort: the profile of every file of the tree
  pFiles,     \* pssort: the files on disk: <<path, content>>
  pDirs,      \* pssort: the directories on disk
  ppc,        \* pssort: where the main process is
  taskq,      \* pssort: the chunks of pool.map no pool process has taken
  left,       \* pssort: the chunks of pool.map without a result
  mapErr,     \* pssort: the first exception a chunk reported
  pwork,      \* pssort: the files left in the chunk of each pool process
  pstate,     \* pssort: listed, moved, failed for every file
  tagOut,     \* tag reader: the text the tool printed
  tagList,    \* tag reader: the tags asked for
  tagPc,      \* tag reader: called, music, photo
  tagRes,     \* tag reader: what the call returned or raised
  fnArg,      \* placement rules: the function looked at and its arguments
  fnPc,       \* placement rules: called, returned
  fnRes       \* placement rules: what the call returned or raised

queueVars ==
  <<mpc, started, nput, queue, unfinished, sentPut, tjoined, wpc, wItem,
    claims, dones, istate>>

musicVars == <<cfg, files, fsFiles, fsDirs, wErr>>

thumbVars == <<force, media, failed_files, thumbDirs, thumbs>>

photoVars ==
  <<pcfg, photos, pFiles, pDirs, ppc, taskq, left, mapErr, pwork, pstate>>

tagVars == <<tagOut, tagList, tagPc, tagRes>>

fnVars == <<fnArg, fnPc, fnRes>>

vars == <<musicVars, queueVars, thumbVars, photoVars, tagVars, fnVars>>

\* cfg.rootdir
\* the path of every file, and whether the walk takes it by its extension
SourcePathOf == [i \in Items, p \in Profiles |-> SourcePath(i, p)]

Whitelisted ==
  [i \in Items, p \in Profiles |-> Lower(SplitExt(SourcePath(i, p))) \in EXTENSIONS]

Src(i) == SourcePathOf[i, files[i]]

\* cfg.rootdir
CfgRootDir == IF cfg.isdir THEN RootDir ELSE Src(1)

\* a fresh queue, no thread started
QueueInit ==
  /\ mpc = "start"
  /\ started = 0
  /\ nput = 0
  /\ queue = <<>>
  /\ unfinished = 0
  /\ sentPut = 0
  /\ tjoined = 0
  /\ wpc = [w \in Workers |-> "idle"]
  /\ wItem = [w \in Workers |-> 0]
  /\ claims = [i \in Items |-> 0]
  /\ dones = [i \in Items |-> 0]
  /\ istate = [i \in Items |-> "new"]

\* the thumbnail generator is not running
ThumbsIdle ==
  /\ force = FALSE
  /\ media = <<>>
  /\ failed_files = <<>>
  /\ thumbDirs = {}
  /\ thumbs = <<>>

\* the photo sorter is not running
PhotoIdle ==
  /\ pcfg = <<>>
  /\ photos = <<>>
  /\ pFiles = {}
  /\ pDirs = {}
  /\ ppc = "idle"
  /\ taskq = <<>>
  /\ left = 0
  /\ mapErr = ""
  /\ pwork = <<>>
  /\ pstate = <<>>

\* no tag reader call is looked at
TagsIdle ==
  /\ tagOut = <<>>
  /\ tagList = <<>>
  /\ tagPc = "idle"
  /\ tagRes = <<>>

\* no placement rule is looked at on its own
FnIdle ==
  /\ fnArg = <<>>
  /\ fnPc = "idle"
  /\ fnRes = <<>>

Init ==
  /\ cfg \in Configs
  /\ files \in [Items -> Profiles]
  /\ fsFiles = { <<Src(i), i>> : i \in Items }
  /\ fsDirs = {RootDir, SubDir, OutDir}
  /\ wErr = [w \in Workers |-> ""]
  /\ QueueInit
  /\ ThumbsIdle
  /\ PhotoIdle
  /\ TagsIdle
  /\ FnIdle

(***************************************************************************)
(* queue.Queue as the programs use it                                      *)
(***************************************************************************)
\* Variants of the queue operations that break the discipline, to compare with.
\* a get() that leaves the head on the queue
QueuePeek(q) == q

\* a task_done() that is never counted
TaskDoneSkipped(n) == n

\* a join() that returns as soon as the queue is empty
JoinWhenEmpty(q, n) == q = <<>>

\* a Thread.join() that does not wait
ThreadJoinNoWait(pc) == TRUE

\* Queue.put(item): never blocks, counts the item as unfinished
QueuePut(q, item) == Append(q, item)

\* Queue.get(): the head leaves the queue
QueueRest(q) == Tail(q)

\* Queue.task_done()
TaskDone(n) == n - 1

\* Queue.join() returns when no put item is unfinished
JoinReturns(q, n) == n = 0

\* Thread.join() returns when the thread has ended: by the sentinel ("exit")
\* or by an exception that left its run function ("dead")
ThreadJoinReturns(pc) == pc \in {"exit", "dead"}

(***************************************************************************)
(* mssort.py: music_worker                                                 *)
(***************************************************************************)
\* the running process: the worker threads are daemons and end with it
Running == mpc \notin {"crashed", "done"}

\* what get_file_tags returns or raises for the file of each profile
ProfileTags ==
  [p \in Profiles |-> get_file_tags(p.output, MusicTags, NoneVal)]

FileTags(i) == ProfileTags[files[i]]

\* lines 155-161: media_item = MEDIA_QUEUE.get(); None ends the loop; then
\* get_file_tags, outside the try: its exception ends the thread
WorkerGet(w) ==
  /\ Running
  /\ wpc[w] = "get"
  /\ queue # <<>>
  /\ queue' = QueueRest(queue)
  /\ IF Head(queue) = Sentinel
     THEN /\ wpc' = [wpc EXCEPT ![w] = "exit"]
          /\ UNCHANGED <<wItem, claims, istate>>
     ELSE /\ wpc' = [wpc EXCEPT ![w] =
                       IF FileTags(Head(queue)).raised # "" THEN "dead" ELSE "move"]
          /\ wItem' = [wItem EXCEPT ![w] = Head(queue)]
          /\ claims' = [claims EXCEPT ![Head(queue)] = @ + 1]
          /\ istate' = [istate EXCEPT ![Head(queue)] = "claimed"]
  /\ UNCHANGED <<cfg, files, fsFiles, fsDirs, mpc, started, nput, unfinished,
                 sentPut, tjoined, wErr, dones, thumbVars, photoVars, tagVars, fnVars>>

\* get_new_path and get_new_name of the file of each profile whose tags were read
ProfilePath ==
  [i \in Items, p \in { q \in Profiles : ProfileTags[q].raised = "" } |->
     get_new_path(SourcePath(i, p), ProfileTags[p].value)]

ProfileName ==
  [i \in Items, p \in { q \in Profiles : ProfileTags[q].raised = "" } |->
     get_new_name(SourcePath(i, p), ProfileTags[p].value)]

\* lines 167-170
FullPath(i) ==
  PathJoin2(IF cfg.outdir.some /\ cfg.outdir.s \in fsDirs
            THEN cfg.outdir.s ELSE CfgRootDir,
            ProfilePath[i, files[i]])

NewName(i) == ProfileName[i, files[i]]

Destination(i) == PathJoin2(FullPath(i), NewName(i).value)

\* what the try block of lines 163-181 ends with: "ok", "OSError" (caught and
\* printed), or the exception raised by the handler of line 180-181, which
\* prints the unbound name e
TryOutcomeIn(dirs, fl, i) ==
  IF NewName(i).raised # "" THEN "UnboundLocalError"
  ELSE IF ~MakeDirsOk(dirs, fl, FullPath(i), files[i].fsfail = "makedirs")
       THEN "OSError"
  ELSE IF ~RenameOk(MakeDirs(dirs, FullPath(i)), fl, Src(i),
                    Destination(i), files[i].fsfail = "rename")
       THEN "OSError"
  ELSE "ok"

TryOutcome(i) == TryOutcomeIn(fsDirs, fsFiles, i)

\* lines 163-181: the try block and its handlers
WorkerMove(w) ==
  LET i == wItem[w] IN
  /\ Running
  /\ wpc[w] = "move"
  /\ fsDirs' = IF NewName(i).raised = ""
                  /\ MakeDirsOk(fsDirs, fsFiles, FullPath(i), files[i].fsfail = "makedirs")
               THEN MakeDirs(fsDirs, FullPath(i)) ELSE fsDirs
  /\ fsFiles' = IF TryOutcome(i) = "ok"
                THEN Rename(fsFiles, Src(i), Destination(i)) ELSE fsFiles
  /\ istate' = [istate EXCEPT ![i] = IF TryOutcome(i) = "ok" THEN "succeeded" ELSE "failed"]
  /\ wErr' = [wErr EXCEPT ![w] =
                IF TryOutcome(i) \in {"ok", "OSError"} THEN "" ELSE TryOutcome(i)]
  /\ wpc' = [wpc EXCEPT ![w] = "finally"]
  /\ UNCHANGED <<cfg, files, mpc, started, nput, queue, unfinished, sentPut,
                 tjoined, wItem, claims, dones, thumbVars, photoVars, tagVars, fnVars>>

\* lines 182-185: task_done in the finally block; a pending exception then
\* ends the thread
WorkerFinally(w) ==
  /\ Running
  /\ wpc[w] = "finally"
  /\ unfinished' = TaskDone(unfinished)
  /\ dones' = [dones EXCEPT ![wItem[w]] = @ + 1]
  /\ wpc' = [wpc EXCEPT ![w] = IF wErr[w] # "" THEN "dead" ELSE "get"]
  /\ wItem' = [wItem EXCEPT ![w] = 0]
  /\ UNCHANGED <<cfg, files, fsFiles, fsDirs, mpc, started, nput, queue,
                 sentPut, tjoined, wErr, claims, istate, thumbVars, photoVars, tagVars, fnVars>>

(***************************************************************************)
(* mssort.py: the main thread                                              *)
(***************************************************************************)
\* lines 204-208: start the worker threads, then walk the tree
MainStart ==
  /\ mpc = "start"
  /\ started < NumWorkers
  /\ started' = started + 1
  /\ wpc' = [wpc EXCEPT ![started + 1] = "get"]
  /\ mpc' = IF started + 1 = NumWorkers THEN "walk" ELSE "start"
  /\ UNCHANGED <<cfg, files, fsFiles, fsDirs, nput, queue, unfinished,
                 sentPut, tjoined, wItem, wErr, claims, dones, istate,
                 thumbVars, photoVars, tagVars, fnVars>>

\* the file the walk of lines 215-227 looks at is put on the queue
Enumerated(i) ==
  /\ Whitelisted[i, files[i]]
  /\ cfg.recurse \/ SourceDir(i) = RootDir

\* lines 211-228: PATH is a folder; one file of the walk per step
MainWalk ==
  /\ mpc = "walk"
  /\ cfg.isdir
  /\ IF nput < NumItems
     THEN /\ nput' = nput + 1
          /\ IF Enumerated(nput + 1)
             THEN /\ queue' = QueuePut(queue, nput + 1)
                  /\ unfinished' = unfinished + 1
                  /\ istate' = [istate EXCEPT ![nput + 1] = "enqueued"]
             ELSE UNCHANGED <<queue, unfinished, istate>>
          /\ mpc' = mpc
     ELSE /\ mpc' = "join"
          /\ UNCHANGED <<nput, queue, unfinished, istate>>
  /\ UNCHANGED <<cfg, files, fsFiles, fsDirs, started, sentPut, tjoined, wpc,
                 wItem, wErr, claims, dones, thumbVars, photoVars, tagVars, fnVars>>

\* lines 229-232: PATH is a single file
MainPutFile ==
  /\ mpc = "walk"
  /\ ~cfg.isdir
  /\ nput' = 1
  /\ IF Whitelisted[1, files[1]]
     THEN /\ queue' = QueuePut(queue, 1)
          /\ unfinished' = unfinished + 1
          /\ istate' = [istate EXCEPT ![1] = "enqueued"]
          /\ mpc' = "logfile"
     ELSE /\ mpc' = "join"
          /\ UNCHANGED <<queue, unfinished, istate>>
  /\ UNCHANGED <<cfg, files, fsFiles, fsDirs, started, sentPut, tjoined, wpc,
                 wItem, wErr, claims, dones, thumbVars, photoVars, tagVars, fnVars>>

\* line 233: 'Processing 1 file..' % n with n never assigned: a NameError ends
\* the main thread, and with it the process
MainLogFile ==
  /\ mpc = "logfile"
  /\ mpc' = "crashed"
  /\ UNCHANGED <<cfg, files, fsFiles, fsDirs, started, nput, queue,
                 unfinished, sentPut, tjoined, wpc, wItem, wErr, claims,
                 dones, istate, thumbVars, photoVars, tagVars, fnVars>>

\* line 234: MEDIA_QUEUE.join()
MainJoin ==
  /\ mpc = "join"
  /\ JoinReturns(queue, unfinished)
  /\ mpc' = "sentinels"
  /\ UNCHANGED <<cfg, files, fsFiles, fsDirs, started, nput, queue,
                 unfinished, sentPut, tjoined, wpc, wItem, wErr, claims,
                 dones, istate, thumbVars, photoVars, tagVars, fnVars>>

\* lines 239-240: one None per thread
MainSentinel ==
  /\ mpc = "sentinels"
  /\ IF sentPut < NumWorkers
     THEN /\ queue' = QueuePut(queue, Sentinel)
          /\ unfinished' = unfinished + 1
          /\ sentPut' = sentPut + 1
          /\ mpc' = mpc
     ELSE /\ mpc' = "tjoin"
          /\ UNCHANGED <<queue, unfinished, sentPut>>
  /\ UNCHANGED <<cfg, files, fsFiles, fsDirs, started, nput, tjoined, wpc,
                 wItem, wErr, claims, dones, istate, thumbVars, photoVars, tagVars, fnVars>>

\* lines 241-242: t.join() for every thread, in order
MainThreadJoin ==
  /\ mpc = "tjoin"
  /\ IF tjoined < started
     THEN /\ ThreadJoinReturns(wpc[tjoined + 1])
          /\ tjoined' = tjoined + 1
          /\ mpc' = mpc
     ELSE /\ mpc' = "squash"
          /\ UNCHANGED tjoined
  /\ UNCHANGED <<cfg, files, fsFiles, fsDirs, started, nput, queue,
                 unfinished, sentPut, wpc, wItem, wErr, claims, dones,
                 istate, thumbVars, photoVars, tagVars, fnVars>>

\* line 244
SquashWanted == cfg.isdir /\ cfg.recurse /\ cfg.squash

\* lines 244-250: the squash pass, then the program ends
MainSquash ==
  /\ mpc = "squash"
  /\ fsDirs' = IF SquashWanted THEN Squash(fsDirs, fsFiles, CfgRootDir) ELSE fsDirs
  /\ mpc' = "done"
  /\ UNCHANGED <<cfg, files, fsFiles, started, nput, queue, unfinished,
                 sentPut, tjoined, wpc, wItem, wErr, claims, dones, istate,
                 thumbVars, photoVars, tagVars, fnVars>>

Next ==
  \/ MainStart
  \/ MainWalk
  \/ MainPutFile
  \/ MainLogFile
  \/ MainJoin
  \/ MainSentinel
  \/ MainThreadJoin
  \/ MainSquash
  \/ \E w \in Workers : WorkerGet(w)
  \/ \E w \in Workers : WorkerMove(w)
  \/ \E w \in Workers : WorkerFinally(w)

Spec == Init /\ [][Next]_vars

MainStep ==
  \/ MainStart
  \/ MainWalk
  \/ MainPutFile
  \/ MainLogFile
  \/ MainJoin
  \/ MainSentinel
  \/ MainThreadJoin
  \/ MainSquash

WorkerStep(w) ==
  \/ WorkerGet(w)
  \/ WorkerMove(w)
  \/ WorkerFinally(w)

\* every thread that can run is eventually scheduled
FairSpec ==
  /\ Spec
  /\ WF_vars(MainStep)
  /\ \A w \in Workers : WF_vars(WorkerStep(w))

(***************************************************************************)
(* Claims about the music run                                              *)
(***************************************************************************)
QueueCount(v) == Cardinality({ k \in DOMAIN queue : queue[k] = v })

Holders(i) == { w \in Workers : wItem[w] = i }

\* the main thread is past MEDIA_QUEUE.join()
JoinReturned == mpc \in {"sentinels", "tjoin", "squash", "done"}

\* C1: every file put on the queue is either still queued once and unclaimed,
\* or was dequeued exactly once and is queued no more; no file is held by two
\* workers; and once join() has returned every enqueued file was dequeued
\* exactly once.
C1_DequeuedExactlyOnce ==
  \A i \in Items :
    /\ QueueCount(i) + claims[i] = (IF istate[i] = "new" THEN 0 ELSE 1)
    /\ (istate[i] = "enqueued") = (QueueCount(i) = 1)
    /\ Cardinality(Holders(i)) <= 1
    /\ (JoinReturned /\ istate[i] # "new") => claims[i] = 1

\* two workers hold two different files at the same time
C1_Witness ==
  \E v, w \in Workers :
    v # w /\ wItem[v] # 0 /\ wItem[w] # 0 /\ wItem[v] # wItem[w]

\* C2: whenever the main thread is past join(), every file that was put on the
\* queue has been dequeued, is held by no worker, and has had task_done
\* called for it.
C2_JoinAfterAllDone ==
  JoinReturned =>
    \A i \in Items :
      istate[i] # "new" =>
        /\ QueueCount(i) = 0
        /\ claims[i] = 1
        /\ Holders(i) = {}
        /\ dones[i] = 1
        /\ istate[i] \in {"succeeded", "failed"}

\* join() has just returned, after every file of the tree was put, dequeued
\* and processed
C2_Witness ==
  /\ mpc = "sentinels"
  /\ sentPut = 0
  /\ \A i \in Items : dones[i] = 1

\* a file was finished while the main thread was still walking the tree
C2_ConsumedWhileWalking ==
  mpc = "walk" /\ \E i \in Items : dones[i] = 1

\* C3: no failure while handling a file ends a worker thread: a worker leaves
\* its loop only by the sentinel.
C3_FailureKeepsWorker ==
  \A w \in Workers : wpc[w] # "dead"

\* the runs C5 is about: PATH is a folder and the only failures are refused
\* makedirs or rename calls
OnlyFsFailures ==
  /\ cfg.isdir
  /\ \A i \in Items :
       Enumerated(i) => FileTags(i).raised = "" /\ NewName(i).raised = ""

RunCompleted ==
  /\ mpc = "done"
  /\ \A i \in Items :
       IF Enumerated(i) THEN istate[i] \in {"succeeded", "failed"} /\ dones[i] = 1
       ELSE istate[i] = "new"

\* an upper bound on the steps the main thread has left
MainRemaining ==
  CASE mpc = "start" -> (NumWorkers - started) + NumItems + 2 * NumWorkers + 6
    [] mpc = "walk" -> (NumItems - nput) + 2 * NumWorkers + 6
    [] mpc = "logfile" -> 1
    [] mpc = "crashed" -> 0
    [] mpc = "join" -> 2 * NumWorkers + 4
    [] mpc = "sentinels" -> (NumWorkers - sentPut) + NumWorkers + 3
    [] mpc = "tjoin" -> (started - tjoined) + 2
    [] mpc = "squash" -> 1
    [] mpc = "done" -> 0

RECURSIVE WorkerRemaining(_)
WorkerRemaining(n) ==
  IF n = 0 THEN 0
  ELSE WorkerRemaining(n - 1)
       + (CASE wpc[n] = "move" -> 2 [] wpc[n] = "finally" -> 1 [] OTHER -> 0)

\* the steps the run has left, at most: it decreases with every step, so no
\* run goes on for ever
Measure == 4 * MainRemaining + 3 * Len(queue) + WorkerRemaining(NumWorkers)

\* C5: a run whose failing files fail with an OSError of makedirs or rename
\* never comes to a halt before every enqueued file was processed, join() has
\* returned and the run has ended; every step brings the run nearer to its
\* end, so under fair scheduling the run does end.
C5_FsFailuresDoNotHang ==
  /\ [](OnlyFsFailures => (RunCompleted \/ ENABLED Next))
  /\ [][Measure' < Measure]_vars

\* a completed run in which a file failed on the filesystem and another file,
\* queued behind it, was moved
C5_Witness ==
  /\ RunCompleted
  /\ OnlyFsFailures
  /\ \E i, j \in Items :
       /\ i < j
       /\ istate[i] = "failed"
       /\ files[i].fsfail # "none"
       /\ istate[j] = "succeeded"

\* the safety part of the shutdown protocol
ShutdownOrder ==
  /\ (sentPut > 0 \/ QueueCount(Sentinel) > 0) => JoinReturned
  /\ mpc \in {"tjoin", "squash", "done"} => sentPut = started /\ started = NumWorkers
  /\ JoinReturned => unfinished = sentPut
  /\ \A w \in Workers : wpc[w] = "exit" => wItem[w] = 0
  /\ mpc \in {"squash", "done"} => \A w \in Workers : wpc[w] \in {"exit", "dead"}
  /\ Cardinality({ w \in Workers : wpc[w] = "exit" }) + QueueCount(Sentinel) <= sentPut

\* C6: sentinels are put only after join() returned, one per started thread;
\* a worker that took a sentinel calls no task_done and stays ended; once
\* join() has returned every worker thread eventually ends; the squash pass
\* and the end of the run come only after all worker threads have ended.
C6_ShutdownProtocol ==
  /\ []ShutdownOrder
  /\ [][\A w \in Workers : wpc[w] = "exit" => wpc'[w] = "exit" /\ unfinished' >= unfinished]_vars
  /\ [](JoinReturned => (mpc = "done" \/ ENABLED Next))
  /\ [][Measure' < Measure]_vars

\* the run has ended and every worker thread left by its sentinel
C6_Witness ==
  /\ mpc = "done"
  /\ \A w \in Workers : wpc[w] = "exit"
  /\ \E i \in Items : dones[i] = 1

\* the files whose tags were read and whose name was computed
Placed == { i \in Items : Enumerated(i) /\ FileTags(i).raised = "" /\ NewName(i).raised = "" }

\* the files of the run handled one after the other, in queue order
RECURSIVE SequentialRun(_)
SequentialRun(k) ==
  IF k = 0 THEN [dirs |-> {RootDir, SubDir, OutDir},
                 fl |-> { <<Src(i), i>> : i \in Items }]
  ELSE LET prev == SequentialRun(k - 1) IN
       IF k \notin Placed THEN prev
       ELSE [dirs |-> IF MakeDirsOk(prev.dirs, prev.fl, FullPath(k),
                                    files[k].fsfail = "makedirs")
                      THEN MakeDirs(prev.dirs, FullPath(k)) ELSE prev.dirs,
             fl |-> IF TryOutcomeIn(prev.dirs, prev.fl, k) = "ok"
                    THEN Rename(prev.fl, Src(k), Destination(k)) ELSE prev.fl]

Movable == { i \in Placed : files[i].fsfail = "none" }

DistinctDestinations ==
  \A i, j \in Placed : i # j => Destination(i) # Destination(j)

ExpectedFiles ==
  { <<Destination(i), i>> : i \in Movable }
  \cup { <<Src(i), i>> : i \in Items \ Movable }

ExpectedDirs ==
  LET made == UNION { Ancestors(FullPath(i)) :
                        i \in { j \in Placed : files[j].fsfail # "makedirs" } }
      dirs == {RootDir, SubDir, OutDir} \cup made
  IN IF SquashWanted THEN Squash(dirs, ExpectedFiles, RootDir) ELSE dirs

PhotoTags == <<"CreateDate", "Keywords">>

FileNotFound == <<"F","i","l","e"," ","n","o","t"," ","f","o","u","n","d">>

\* pssort.get_file_tags on the text the tool printed: the lines are not read
\* when the text starts with 'File not found'
ps_get_file_tags(output, tags, empty) ==
  IF StartsWith(output, FileNotFound)
  THEN Returned(AddMissing(<<>>, tags))
  ELSE LET r == ReadLines(Split(output, "\n"), tags, empty) IN
       IF r.raised # "" THEN r ELSE Returned(AddMissing(r.value, tags))

IsDigits(s) == s # <<>> /\ \A k \in DOMAIN s : s[k] \in Range(DigitChars)

IsLeap(y) == (y % 4 = 0 /\ y % 100 # 0) \/ y % 400 = 0

DaysInMonth(y, m) ==
  IF m = 2 THEN (IF IsLeap(y) THEN 29 ELSE 28)
  ELSE IF m \in {4, 6, 9, 11} THEN 30 ELSE 31

\* datetime.strptime(text, '%Y:%m:%d %H:%M:%S'): the date it reads, or the
\* ValueError of a text that does not match the format or names no date.
\* (Seconds 60 and 61 are not among the inputs.)
Strptime(text) ==
  LET halves == Split(text, " ")
      d == Split(halves[1], ":")
      t == Split(halves[2], ":")
      shaped == /\ Len(halves) = 2
                /\ Len(d) = 3 /\ Len(t) = 3
                /\ \A k \in 1..3 : IsDigits(d[k]) /\ IsDigits(t[k])
                /\ Len(d[1]) = 4
                /\ \A k \in 2..3 : Len(d[k]) <= 2
                /\ \A k \in 1..3 : Len(t[k]) <= 2
      Y == DigitsValue(d[1])
      m == DigitsValue(d[2])
      dd == DigitsValue(d[3])
  IN IF /\ shaped
        /\ Y >= 1
        /\ m \in 1..12
        /\ dd \in 1..DaysInMonth(Y, m)
        /\ DigitsValue(t[1]) <= 23
        /\ DigitsValue(t[2]) <= 59
        /\ DigitsValue(t[3]) <= 59
     THEN Returned([Y |-> Y, m |-> m, d |-> dd])
     ELSE Raised("ValueError")

\* lines 126-130; ctime is the date of os.path.getctime(file)
get_create_date(ctime, tags) ==
  IF ~(tags["CreateDate"].some /\ tags["CreateDate"].s # <<>>)
  THEN Returned(ctime)
  ELSE Strptime(tags["CreateDate"].s)

\* lines 157-161: the keyword list
Keywords(tags) ==
  IF tags["Keywords"].some
  THEN [k \in DOMAIN Split(tags["Keywords"].s, ",") |->
          Strip(Split(tags["Keywords"].s, ",")[k])]
  ELSE <<>>

\* the month names of strftime('%B') under the locale of line 60, de_DE
MonthNames ==
  << <<"J","a","n","u","a","r">>, <<"F","e","b","r","u","a","r">>,
     <<"M","ä","r","z">>, <<"A","p","r","i","l">>, <<"M","a","i">>,
     <<"J","u","n","i">>, <<"J","u","l","i">>, <<"A","u","g","u","s","t">>,
     <<"S","e","p","t","e","m","b","e","r">>, <<"O","k","t","o","b","e","r">>,
     <<"N","o","v","e","m","b","e","r">>, <<"D","e","z","e","m","b","e","r">> >>

RECURSIVE Digits(_)
Digits(n) ==
  IF n < 10 THEN <<DigitChars[n + 1]>>
  ELSE Digits(n \div 10) \o <<DigitChars[(n % 10) + 1]>>

\* strftime('%Y'), '%m' and '%B'
StrfY(date) == Zfill(Digits(date.Y), 4)

Strfm(date) == Zfill(Digits(date.m), 2)

StrfB(date) == MonthNames[date.m]

\* the text after the prefix of the first keyword that has it, else default
FirstWithPrefix(keywords, prefix, default) ==
  LET hits == { k \in DOMAIN keywords : StartsWith(keywords[k], prefix) } IN
  IF hits = {} THEN default
  ELSE Drop(keywords[CHOOSE k \in hits : \A h \in hits : k <= h], Len(prefix))

\* a year prefix is never found, to compare with
NeverMatches(text) == FALSE

\* match(r'\d{4} - ', text)
MatchYearPrefix(text) ==
  /\ Len(text) >= 7
  /\ \A k \in 1..4 : text[k] \in Range(DigitChars)
  /\ SubSeq(text, 5, 7) = <<" ", "-", " ">>

HasAlbum(keywords) ==
  \E k \in DOMAIN keywords : StartsWith(keywords[k], <<"a","l","b","u","m",":">>)

NoMonth == <<"h","a","z","e","l",":","n","o"," ","m","o","n","t","h">>

\* pssort.sanitize, lines 80-87, of a str
ps_sanitize(string) ==
  JoinWith(<<" ">>, SplitWS(SelectSeq(string, SanitizeKeep)))

\* pssort.get_new_path, lines 177-195; tags['CreateDate'] is date,
\* tags['Keywords'] is keywords
ps_get_new_path(date, keywords) ==
  LET parentname == FirstWithPrefix(keywords, <<"p","a","r","e","n","t",":">>, StrfY(date))
      named == FirstWithPrefix(keywords, <<"a","l","b","u","m",":">>, StrfB(date))
      albumname == IF HasAlbum(keywords) /\ MatchYearPrefix(named)
                   THEN Drop(named, 7) ELSE named
      dated == IF NoMonth \in Range(keywords) THEN albumname
               ELSE Strfm(date) \o <<" ">> \o albumname
  IN PathJoin2(ps_sanitize(parentname), ps_sanitize(dated))

\* match(r'\d{4}-\d{2}-\d{2}_', filename)
MatchDatePrefix(filename) ==
  /\ Len(filename) >= 11
  /\ \A k \in {1, 2, 3, 4, 6, 7, 9, 10} : filename[k] \in Range(DigitChars)
  /\ filename[5] = "-" /\ filename[8] = "-" /\ filename[11] = "_"

\* the date without its separators, to compare with
CompactFormat(date) ==
  Zfill(Digits(date.Y), 4) \o Zfill(Digits(date.m), 2) \o Zfill(Digits(date.d), 2)

\* date.isoformat()
IsoFormat(date) ==
  Zfill(Digits(date.Y), 4) \o <<"-">> \o Zfill(Digits(date.m), 2)
    \o <<"-">> \o Zfill(Digits(date.d), 2)

\* pssort.get_new_name, lines 198-203
ps_get_new_name(file, date) ==
  IF ~MatchDatePrefix(BaseName(file))
  THEN IsoFormat(date) \o <<"_">> \o BaseName(file)
  ELSE BaseName(file)


(***************************************************************************)
(* psthumbs.py: the thumbnail generator                                    *)
(***************************************************************************)
\* the files generate_thumbnails writes: THUMB_SIZES and PREVIEW_SIZE
ImageThumbs == {"XL", "L", "B", "M", "S", "PREVIEW"}

\* the files video_converter writes: PREVIEW_SIZE_VIDEO and THUMB_SIZES_VIDEO
VideoThumbs == {"FILM", "XL", "M"}

\* a media file as the run finds it.
\*   kind:   by its extension, image, raw or video
\*   dir:    its thumbnail directory exists, is missing, or is missing and
\*           cannot be created
\*   result: what the imaging tools do with it
\*     image: "ok"; "open_raises", Image.open raises; "truncated", load() fails
\*            and succeeds with LOAD_TRUNCATED_IMAGES; "unreadable", it fails twice
\*     raw:   "ok"; "unreadable", dcraw or Image.open fails
\*     video: "ok"; "no_preview", ffmpeg writes no .flv and reports it only by
\*            its exit status; "no_frame", ffmpeg extracts no frame, so that
\*            Image.open(thumb_temp) raises
MediaProfiles ==
  { [kind |-> "image", dir |-> "missing", result |-> "ok"],
    [kind |-> "image", dir |-> "exists", result |-> "ok"],
    [kind |-> "image", dir |-> "refused", result |-> "ok"],
    [kind |-> "image", dir |-> "missing", result |-> "open_raises"],
    [kind |-> "image", dir |-> "missing", result |-> "truncated"],
    [kind |-> "image", dir |-> "missing", result |-> "unreadable"],
    [kind |-> "raw", dir |-> "missing", result |-> "unreadable"],
    [kind |-> "video", dir |-> "missing", result |-> "ok"],
    [kind |-> "video", dir |-> "missing", result |-> "no_preview"],
    [kind |-> "video", dir |-> "missing", result |-> "no_frame"] }

\* thumbnail files with the run that wrote them: "old" for a file that was
\* there when the run started, "new" for one written by the run
Stamped(names, stamp) == { <<n, stamp>> : n \in names }

\* files written next to the existing ones, none of them replaced, to compare
\* with
WriteBeside(have, names) ==
  have \cup Stamped({ n \in names : \A t \in have : t[1] # n }, "new")

\* image.save(path) at lines 305-306, 317-318 and 378-379 and ffmpeg -y at
\* line 346: a file of that name is replaced
WriteThumbs(have, names) ==
  { t \in have : t[1] \notin names } \cup Stamped(names, "new")

InitThumbs ==
  /\ force \in BOOLEAN
  /\ media \in [Items -> MediaProfiles]
  /\ failed_files = <<>>
  /\ thumbDirs = { i \in Items : media[i].dir = "exists" }
  /\ thumbs = [i \in Items |->
                 IF media[i].dir # "exists" THEN {}
                 ELSE Stamped(IF media[i].kind = "video" THEN VideoThumbs ELSE ImageThumbs,
                              "old")]
  /\ QueueInit
  /\ cfg = [isdir |-> TRUE, recurse |-> TRUE, squash |-> FALSE, outdir |-> NoneVal]
  /\ files = <<>>
  /\ fsFiles = {}
  /\ fsDirs = {}
  /\ wErr = <<>>
  /\ PhotoIdle
  /\ TagsIdle
  /\ FnIdle

\* lines 232-236: the thumbnail directory exists and force is off
AlreadyProcessed(i) == i \in thumbDirs /\ ~force

\* lines 237-246: the thumbnail directory is missing and cannot be made
DirFails(i) == i \notin thumbDirs /\ media[i].dir = "refused"

\* the converter of lines 248-254 leaves media_converter by an exception no
\* handler catches: Image.open at line 261 is outside the try of
\* image_converter, and video_converter has no try
ConverterRaises(i) ==
  \/ media[i].kind = "image" /\ media[i].result = "open_raises"
  \/ media[i].kind = "video" /\ media[i].result = "no_frame"

\* the converter catches the failure and appends the file to failed_files:
\* lines 271-274 and 290-293
ConverterRecords(i) ==
  media[i].kind \in {"image", "raw"} /\ media[i].result = "unreadable"

\* the thumbnail files the converter writes
ConverterWrites(i) ==
  IF media[i].kind = "video"
  THEN (IF media[i].result = "ok" THEN VideoThumbs
        ELSE IF media[i].result = "no_preview" THEN VideoThumbs \ {"FILM"}
        ELSE {"FILM"})
  ELSE (IF media[i].result \in {"ok", "truncated"} THEN ImageThumbs ELSE {})

\* all thumbnails and the preview of the file were generated
Generated(i) ==
  ConverterWrites(i) = (IF media[i].kind = "video" THEN VideoThumbs ELSE ImageThumbs)

\* lines 242 and 272 and 291: failed_files.append(self.media_item)
AppendFailed(list, i) == Append(list, i)

\* lines 395-399
ThumbStart ==
  /\ mpc = "start"
  /\ started < NumWorkers
  /\ started' = started + 1
  /\ wpc' = [wpc EXCEPT ![started + 1] = "get"]
  /\ mpc' = IF started + 1 = NumWorkers THEN "walk" ELSE "start"
  /\ UNCHANGED <<nput, queue, unfinished, sentPut, tjoined, wItem, claims,
                 dones, istate, musicVars, thumbVars, photoVars, tagVars, fnVars>>

\* lines 151-157: media_queue_builder puts every media file of the tree
ThumbWalk ==
  /\ mpc = "walk"
  /\ IF nput < NumItems
     THEN /\ nput' = nput + 1
          /\ queue' = QueuePut(queue, nput + 1)
          /\ unfinished' = unfinished + 1
          /\ istate' = [istate EXCEPT ![nput + 1] = "enqueued"]
          /\ mpc' = mpc
     ELSE /\ mpc' = "join"
          /\ UNCHANGED <<nput, queue, unfinished, istate>>
  /\ UNCHANGED <<started, sentPut, tjoined, wpc, wItem, claims, dones,
                 musicVars, thumbVars, photoVars, tagVars, fnVars>>

\* line 404: media_queue.join()
ThumbJoin ==
  /\ mpc = "join"
  /\ JoinReturns(queue, unfinished)
  /\ mpc' = "sentinels"
  /\ UNCHANGED <<started, nput, queue, unfinished, sentPut, tjoined, wpc,
                 wItem, claims, dones, istate, musicVars, thumbVars, photoVars, tagVars, fnVars>>

\* lines 409-410
ThumbSentinel ==
  /\ mpc = "sentinels"
  /\ IF sentPut < NumWorkers
     THEN /\ queue' = QueuePut(queue, Sentinel)
          /\ unfinished' = unfinished + 1
          /\ sentPut' = sentPut + 1
          /\ mpc' = mpc
     ELSE /\ mpc' = "tjoin"
          /\ UNCHANGED <<queue, unfinished, sentPut>>
  /\ UNCHANGED <<started, nput, tjoined, wpc, wItem, claims, dones, istate,
                 musicVars, thumbVars, photoVars, tagVars, fnVars>>

\* lines 411-412
ThumbThreadJoin ==
  /\ mpc = "tjoin"
  /\ IF tjoined < started
     THEN /\ ThreadJoinReturns(wpc[tjoined + 1])
          /\ tjoined' = tjoined + 1
          /\ mpc' = mpc
     ELSE /\ mpc' = "report"
          /\ UNCHANGED tjoined
  /\ UNCHANGED <<started, nput, queue, unfinished, sentPut, wpc, wItem, claims,
                 dones, istate, musicVars, thumbVars, photoVars, tagVars, fnVars>>

\* lines 414-420: the summary lists failed_files
ThumbReport ==
  /\ mpc = "report"
  /\ mpc' = "done"
  /\ UNCHANGED <<started, nput, queue, unfinished, sentPut, tjoined, wpc,
                 wItem, claims, dones, istate, musicVars, thumbVars, photoVars, tagVars, fnVars>>

\* the script is started again on the tree a finished run has left, with
\* the same options: what the run made is what the next run finds
ThumbRerun ==
  /\ mpc = "done"
  /\ \E i \in Items : i \in thumbDirs /\ media[i].dir # "exists"
  /\ media' = [i \in Items |->
                 IF i \in thumbDirs THEN [media[i] EXCEPT !.dir = "exists"] ELSE media[i]]
  /\ thumbs' = [i \in Items |-> Stamped({ t[1] : t \in thumbs[i] }, "old")]
  /\ failed_files' = <<>>
  /\ mpc' = "start"
  /\ started' = 0
  /\ nput' = 0
  /\ queue' = <<>>
  /\ unfinished' = 0
  /\ sentPut' = 0
  /\ tjoined' = 0
  /\ wpc' = [w \in Workers |-> "idle"]
  /\ wItem' = [w \in Workers |-> 0]
  /\ claims' = [i \in Items |-> 0]
  /\ dones' = [i \in Items |-> 0]
  /\ istate' = [i \in Items |-> "new"]
  /\ UNCHANGED <<force, thumbDirs, musicVars, photoVars, tagVars, fnVars>>

\* lines 219-221: self.media_item = self.media_queue.get()
ConverterGet(w) ==
  /\ Running
  /\ wpc[w] = "get"
  /\ queue # <<>>
  /\ queue' = QueueRest(queue)
  /\ IF Head(queue) = Sentinel
     THEN /\ wpc' = [wpc EXCEPT ![w] = "exit"]
          /\ UNCHANGED <<wItem, claims, istate>>
     ELSE /\ wpc' = [wpc EXCEPT ![w] = "convert"]
          /\ wItem' = [wItem EXCEPT ![w] = Head(queue)]
          /\ claims' = [claims EXCEPT ![Head(queue)] = @ + 1]
          /\ istate' = [istate EXCEPT ![Head(queue)] = "claimed"]
  /\ UNCHANGED <<mpc, started, nput, unfinished, sentPut, tjoined, dones,
                 musicVars, thumbVars, photoVars, tagVars, fnVars>>

\* where run() goes on after media_converter: to task_done at line 223, or out
\* of the thread with the exception media_converter raised
AfterConverter(raises) == IF raises THEN "dead" ELSE "task_done"

\* line 222: self.media_converter(), lines 228-254
media_converter(w) ==
  LET i == wItem[w] IN
  /\ Running
  /\ wpc[w] = "convert"
  /\ IF AlreadyProcessed(i)
     THEN /\ istate' = [istate EXCEPT ![i] = "skipped"]
          /\ wpc' = [wpc EXCEPT ![w] = AfterConverter(FALSE)]
          /\ UNCHANGED <<failed_files, thumbDirs, thumbs>>
     ELSE IF DirFails(i)
     THEN /\ failed_files' = AppendFailed(failed_files, i)
          /\ istate' = [istate EXCEPT ![i] = "failed"]
          /\ wpc' = [wpc EXCEPT ![w] = AfterConverter(FALSE)]
          /\ UNCHANGED <<thumbDirs, thumbs>>
     ELSE /\ thumbDirs' = thumbDirs \cup {i}
          /\ thumbs' = [thumbs EXCEPT ![i] = WriteThumbs(@, ConverterWrites(i))]
          /\ failed_files' = IF ConverterRecords(i)
                             THEN AppendFailed(failed_files, i) ELSE failed_files
          /\ istate' = [istate EXCEPT ![i] = IF Generated(i) THEN "succeeded" ELSE "failed"]
          /\ wpc' = [wpc EXCEPT ![w] = AfterConverter(ConverterRaises(i))]
  /\ UNCHANGED <<mpc, started, nput, queue, unfinished, sentPut, tjoined,
                 wItem, claims, dones, force, media, musicVars, photoVars,
                 tagVars, fnVars>>

\* line 223: self.media_queue.task_done()
ConverterTaskDone(w) ==
  /\ Running
  /\ wpc[w] = "task_done"
  /\ unfinished' = TaskDone(unfinished)
  /\ dones' = [dones EXCEPT ![wItem[w]] = @ + 1]
  /\ wpc' = [wpc EXCEPT ![w] = "get"]
  /\ wItem' = [wItem EXCEPT ![w] = 0]
  /\ UNCHANGED <<mpc, started, nput, queue, sentPut, tjoined, claims, istate,
                 musicVars, thumbVars, photoVars, tagVars, fnVars>>

NextThumbs ==
  \/ ThumbStart
  \/ ThumbWalk
  \/ ThumbJoin
  \/ ThumbSentinel
  \/ ThumbThreadJoin
  \/ ThumbReport
  \/ ThumbRerun
  \/ \E w \in Workers : ConverterGet(w)
  \/ \E w \in Workers : media_converter(w)
  \/ \E w \in Workers : ConverterTaskDone(w)

SpecThumbs == InitThumbs /\ [][NextThumbs]_vars

(***************************************************************************)
(* Claims about the thumbnail run                                          *)
(***************************************************************************)
\* C4: every file a converter thread has dequeued and is no longer working on
\* has had task_done called for it exactly once, whether media_converter
\* returned or raised.
C4_TaskDoneOnEveryPath ==
  \A i \in Items :
    /\ dones[i] <= 1
    /\ (claims[i] = 1 /\ \A w \in Workers : ~(wItem[w] = i /\ wpc[w] \in {"convert", "task_done"}))
         => dones[i] = 1

Count(list, i) == Cardinality({ k \in DOMAIN list : list[k] = i })

\* C8: when the run writes its summary, failed_files holds every file whose
\* thumbnails or preview were not generated, once, and no other file.
C8_FailureListComplete ==
  mpc \in {"report", "done"} =>
    \A i \in Items :
      Count(failed_files, i) = (IF istate[i] = "failed" THEN 1 ELSE 0)

(***************************************************************************)
(* pssort.py: the run, pool.map over the files of the tree                 *)
(***************************************************************************)
Photos == 1..NumPhotos

\* the date of os.path.getctime(file) of every file
CTime == [Y |-> 2020, m |-> 1, d |-> 2]

PhotoName(i) == <<"p", DigitChars[i + 1], ".", "j", "p", "g">>

\* the files of the tree: the odd ones in the root, the even ones in a subfolder
PhotoPath(i) == PathJoin2(SourceDir(i), PhotoName(i))

DatedOutput ==
  <<"2","0","1","9",":","0","3",":","0","7"," ","1","0",":","2","0",":","3","0","\n","-">>

UndatedOutput == <<"-", "\n", "-">>

ZeroDateOutput ==
  <<"0","0","0","0",":","0","0",":","0","0"," ","0","0",":","0","0",":","0","0","\n","-">>

\* a file as the run finds it: the text exiftool prints for it and the
\* filesystem call that is refused for it
PhotoProfiles ==
  { [output |-> DatedOutput, fsfail |-> "none"],
    [output |-> UndatedOutput, fsfail |-> "none"],
    [output |-> ZeroDateOutput, fsfail |-> "none"],
    [output |-> DatedOutput, fsfail |-> "rename"] }

\* the command lines: --recurse, --squash, --out, --threads
PhotoConfigs ==
  { [recurse |-> TRUE, squash |-> TRUE, outdir |-> NoneVal, num_of_threads |-> n]
      : n \in 1..NumWorkers }
  \cup
  { [recurse |-> FALSE, squash |-> FALSE, outdir |-> Some(OutDir), num_of_threads |-> n]
      : n \in 1..NumWorkers }

InitPhoto ==
  /\ pcfg \in PhotoConfigs
  /\ photos \in [Photos -> PhotoProfiles]
  /\ pFiles = { <<PhotoPath(i), i>> : i \in Photos }
  /\ pDirs = {RootDir, SubDir, OutDir}
  /\ ppc = "map"
  /\ taskq = <<>>
  /\ left = 0
  /\ mapErr = ""
  /\ pwork = [w \in Workers |-> <<>>]
  /\ pstate = [i \in Photos |-> "listed"]
  /\ cfg = [isdir |-> TRUE, recurse |-> TRUE, squash |-> FALSE, outdir |-> NoneVal]
  /\ files = <<>>
  /\ fsFiles = {}
  /\ fsDirs = {}
  /\ wErr = <<>>
  /\ QueueInit
  /\ ThumbsIdle
  /\ TagsIdle
  /\ FnIdle

\* lines 133-143: the files dir_walker yields, none of them hidden
Walked(i) == pcfg.recurse \/ SourceDir(i) = RootDir

RECURSIVE dir_walker(_)
dir_walker(n) ==
  IF n = 0 THEN <<>>
  ELSE dir_walker(n - 1) \o (IF Walked(n) THEN <<n>> ELSE <<>>)

\* Pool.map without a chunksize: divmod(len(iterable), len(pool) * 4), rounded up
ChunkSize(n, processes) ==
  IF n % (processes * 4) # 0 THEN n \div (processes * 4) + 1
  ELSE n \div (processes * 4)

RECURSIVE Chunks(_, _)
Chunks(list, size) ==
  IF list = <<>> THEN <<>>
  ELSE IF Len(list) <= size THEN <<list>>
  ELSE <<SubSeq(list, 1, size)>> \o Chunks(Drop(list, size), size)

\* lines 155-164 of file_processor for one file: the exception raised, or the
\* directory and the name computed
PhotoPlan ==
  [i \in Photos, p \in PhotoProfiles |->
     LET tags == ps_get_file_tags(p.output, PhotoTags, NoneVal) IN
     IF tags.raised # "" THEN [raised |-> tags.raised, path |-> <<>>, name |-> <<>>]
     ELSE LET date == get_create_date(CTime, tags.value) IN
          IF date.raised # "" THEN [raised |-> date.raised, path |-> <<>>, name |-> <<>>]
          ELSE [raised |-> "",
                path |-> ps_get_new_path(date.value, Keywords(tags.value)),
                name |-> ps_get_new_name(PhotoPath(i), date.value)]]

\* lines 166-169
PhotoFullPath(i) ==
  IF pcfg.outdir.some /\ pcfg.outdir.s \in pDirs
  THEN PathJoin2(pcfg.outdir.s, PhotoPlan[i, photos[i]].path)
  ELSE PathJoin2(RootDir, PhotoPlan[i, photos[i]].path)

PhotoDestination(i) == PathJoin2(PhotoFullPath(i), PhotoPlan[i, photos[i]].name)

\* the exception file_processor(i) ends with, "" when it returns
PhotoRaises(i) ==
  IF PhotoPlan[i, photos[i]].raised # "" THEN PhotoPlan[i, photos[i]].raised
  ELSE IF ~MakeDirsOk(pDirs, pFiles, PhotoFullPath(i), photos[i].fsfail = "makedirs")
  THEN "OSError"
  ELSE IF ~RenameOk(MakeDirs(pDirs, PhotoFullPath(i)), pFiles, PhotoPath(i),
                    PhotoDestination(i), photos[i].fsfail = "rename")
  THEN "OSError"
  ELSE ""

\* the result of a chunk reaches the MapResult: the first exception is kept
MapResultSet(err, raised) == IF err = "" THEN raised ELSE err

\* what is left of a chunk after one of its files: mapstar stops at the first
\* exception
ChunkRest(chunk, raised) == IF raised # "" THEN <<>> ELSE Tail(chunk)

\* line 214: pool.map hands out the chunks
PhotoMap ==
  /\ ppc = "map"
  /\ taskq' = Chunks(dir_walker(NumPhotos),
                     ChunkSize(Len(dir_walker(NumPhotos)), pcfg.num_of_threads))
  /\ left' = Len(taskq')
  /\ ppc' = "wait"
  /\ UNCHANGED <<pcfg, photos, pFiles, pDirs, mapErr, pwork, pstate,
                 musicVars, queueVars, thumbVars, tagVars, fnVars>>

\* a pool process takes the next chunk
PoolTake(w) ==
  /\ ppc = "wait"
  /\ w <= pcfg.num_of_threads
  /\ pwork[w] = <<>>
  /\ taskq # <<>>
  /\ pwork' = [pwork EXCEPT ![w] = Head(taskq)]
  /\ taskq' = Tail(taskq)
  /\ UNCHANGED <<pcfg, photos, pFiles, pDirs, ppc, left, mapErr, pstate,
                 musicVars, queueVars, thumbVars, tagVars, fnVars>>

\* lines 150-174: file_processor on the next file of the chunk, and the
\* result of the chunk once it ends
file_processor(w) ==
  /\ ppc = "wait"
  /\ pwork[w] # <<>>
  /\ LET i == Head(pwork[w])
         raised == PhotoRaises(i)
         made == PhotoPlan[i, photos[i]].raised = ""
                   /\ MakeDirsOk(pDirs, pFiles, PhotoFullPath(i),
                                 photos[i].fsfail = "makedirs")
     IN /\ pDirs' = IF made THEN MakeDirs(pDirs, PhotoFullPath(i)) ELSE pDirs
        /\ pFiles' = IF raised = ""
                     THEN Rename(pFiles, PhotoPath(i), PhotoDestination(i))
                     ELSE pFiles
        /\ pstate' = [pstate EXCEPT ![i] = IF raised = "" THEN "moved" ELSE "failed"]
        /\ pwork' = [pwork EXCEPT ![w] = ChunkRest(pwork[w], raised)]
        /\ IF ChunkRest(pwork[w], raised) = <<>>
           THEN /\ left' = left - 1
                /\ mapErr' = MapResultSet(mapErr, raised)
           ELSE UNCHANGED <<left, mapErr>>
  /\ UNCHANGED <<pcfg, photos, ppc, taskq,
                 musicVars, queueVars, thumbVars, tagVars, fnVars>>

\* line 214: pool.map returns once every chunk has a result, or raises the
\* exception a chunk reported; nothing catches it
PhotoMapReturns ==
  /\ ppc = "wait"
  /\ left = 0
  /\ ppc' = IF mapErr # "" THEN "aborted" ELSE "squash"
  /\ UNCHANGED <<pcfg, photos, pFiles, pDirs, taskq, left, mapErr, pwork, pstate,
                 musicVars, queueVars, thumbVars, tagVars, fnVars>>

\* lines 216-222
PhotoSquash ==
  /\ ppc = "squash"
  /\ pDirs' = IF RootDir \in pDirs /\ pcfg.recurse /\ pcfg.squash
              THEN Squash(pDirs, pFiles, RootDir) ELSE pDirs
  /\ ppc' = "done"
  /\ UNCHANGED <<pcfg, photos, pFiles, taskq, left, mapErr, pwork, pstate,
                 musicVars, queueVars, thumbVars, tagVars, fnVars>>

NextPhoto ==
  \/ PhotoMap
  \/ \E w \in Workers : PoolTake(w)
  \/ \E w \in Workers : file_processor(w)
  \/ PhotoMapReturns
  \/ PhotoSquash

SpecPhoto == InitPhoto /\ [][NextPhoto]_vars

(***************************************************************************)
(* Claims about the photo run                                              *)
(***************************************************************************)
\* C7: an exception raised while one file is processed does not abort the
\* photo run: the run is never ended by it, and once pool.map is over every
\* file dir_walker yielded has been processed.
C7_FailureDoesNotAbort ==
  /\ ppc # "aborted"
  /\ ppc \in {"squash", "done"} =>
       \A i \in Photos : Walked(i) => pstate[i] \in {"moved", "failed"}

(***************************************************************************)
(* The tag readers on every text of the tool                               *)
(***************************************************************************)
\* the lines the tool prints: an unset tag, a value, its 'not found' message
OutputLines == { <<"-">>, <<"v">>, FileNotFound }

\* the texts of up to MaxLines lines, and the empty text
Outputs ==
  {<<>>} \cup
  UNION { { Lines(ls) : ls \in [1..n -> OutputLines] } : n \in 1..MaxLines }

\* lists of K distinct tag names
TagLists == { SubSeq(MusicTags, 1, k) : k \in 1..MaxTags }

InitTags ==
  /\ tagOut \in Outputs
  /\ tagList \in TagLists
  /\ tagPc = "called"
  /\ tagRes = <<>>
  /\ cfg = [isdir |-> TRUE, recurse |-> TRUE, squash |-> FALSE, outdir |-> NoneVal]
  /\ files = <<>>
  /\ fsFiles = {}
  /\ fsDirs = {}
  /\ wErr = <<>>
  /\ QueueInit
  /\ ThumbsIdle
  /\ PhotoIdle
  /\ FnIdle

\* mssort.get_file_tags(file, tags)
MusicRead ==
  /\ tagPc = "called"
  /\ tagRes' = get_file_tags(tagOut, tagList, NoneVal)
  /\ tagPc' = "music"
  /\ UNCHANGED <<tagOut, tagList, musicVars, queueVars, thumbVars, photoVars, fnVars>>

\* pssort.get_file_tags(file, tags)
PhotoRead ==
  /\ tagPc = "called"
  /\ tagRes' = ps_get_file_tags(tagOut, tagList, NoneVal)
  /\ tagPc' = "photo"
  /\ UNCHANGED <<tagOut, tagList, musicVars, queueVars, thumbVars, photoVars, fnVars>>

NextTags ==
  \/ MusicRead
  \/ PhotoRead

SpecTags == InitTags /\ [][NextTags]_vars

\* C10: get_file_tags with K distinct tag names returns a mapping with
\* exactly those K keys and raises nothing, whatever the tool printed.
C10_ExactlyTheTagsAsked ==
  tagPc \in {"music", "photo"} =>
    /\ tagRes.raised = ""
    /\ DOMAIN tagRes.value = Range(tagList)

\* C11: when the text of the tool starts with its 'File not found' message
\* (and has no more lines than tags were asked for), either reader returns a
\* mapping in which every tag asked for is None: the message is stored nowhere.
C11_NotFoundAllAbsent ==
  (/\ tagPc \in {"music", "photo"}
   /\ StartsWith(tagOut, FileNotFound)
   /\ Len(Split(tagOut, "\n")) <= Len(tagList)) =>
    /\ tagRes.raised = ""
    /\ \A t \in Range(tagList) : tagRes.value[t] = NoneVal

\* C25: at every moment of a music run every file of the tree is still
\* there, at the path it had or at its destination: no move replaces
\* another file.
C25_NoFileLost ==
  \A i \in Items :
    \E f \in fsFiles :
      /\ f[2] = i
      /\ f[1] = Src(i) \/ (NewName(i).raised = "" /\ f[1] = Destination(i))

(***************************************************************************)
(* Thumbnails that are there already                                       *)
(***************************************************************************)
\* every thumbnail and the preview of the item, all written by this run
AllNew(i) ==
  Stamped(IF media[i].kind = "video" THEN VideoThumbs ELSE ImageThumbs, "new")

\* the imaging tools can read the item
Readable(i) == media[i].result \in {"ok", "truncated"}

\* C23: when a worker handles an item whose thumbnail directory exists,
\* then without --force the item is skipped and its thumbnail files stay as
\* they are, and with --force the item is converted and, if the tools can
\* read it, every thumbnail file is written anew, none of the old ones
\* left; an item whose directory does not exist gets it made (unless that
\* is refused) and is converted in the same way, with and without --force.
\* No other item's directory or files change.
C23_SkipOrForce ==
  [][\A w \in Workers :
       (wpc[w] = "convert" /\ wpc'[w] # "convert") =>
         LET i == wItem[w] IN
         /\ (i \in thumbDirs /\ ~force) =>
              /\ istate'[i] = "skipped"
              /\ thumbs'[i] = thumbs[i]
              /\ failed_files' = failed_files
         /\ (i \in thumbDirs /\ force) =>
              /\ istate'[i] # "skipped"
              /\ Readable(i) => thumbs'[i] = AllNew(i)
         /\ (i \notin thumbDirs /\ media[i].dir # "refused") =>
              /\ i \in thumbDirs'
              /\ istate'[i] # "skipped"
              /\ Readable(i) => thumbs'[i] = AllNew(i)
         /\ \A j \in Items \ {i} :
              thumbs'[j] = thumbs[j] /\ (j \in thumbDirs' <=> j \in thumbDirs)]_vars

\* with --force an item whose directory existed has been converted and
\* holds only new thumbnail files
C23_Witness ==
  /\ force
  /\ \E i \in Items :
       /\ media[i].dir = "exists"
       /\ istate[i] = "succeeded"
       /\ thumbs[i] = AllNew(i)

\* without --force an item whose directory exists has been skipped
C23_Skipped ==
  /\ ~force
  /\ \E i \in Items :
       /\ media[i].dir = "exists"
       /\ istate[i] = "skipped"
       /\ thumbs[i] = Stamped(ImageThumbs, "old")

\* C26: an item that a run skips as already processed has all its
\* thumbnail files and its preview in its directory, so that an item whose
\* generation failed in one run is converted again by the next.
C26_SkippedMeansComplete ==
  \A i \in Items :
    istate[i] = "skipped" =>
      { t[1] : t \in thumbs[i] } =
        (IF media[i].kind = "video" THEN VideoThumbs ELSE ImageThumbs)

(***************************************************************************)
(* Where the music sorter puts the files                                   *)
(***************************************************************************)
\* the directory a path lies in
ParentDir(p) == SubSeq(p, 1, LastIndex(p, "/") - 1)

\* the root the --out help promises: DIR when given and there, else PATH
\* when it is a folder, else the parent of PATH
PromisedRoot ==
  IF cfg.outdir # NoneVal /\ cfg.outdir.s \in fsDirs THEN cfg.outdir.s
  ELSE IF cfg.isdir THEN RootDir
  ELSE ParentDir(Src(1))

\* C20: a worker about to move a file has computed its directory under
\* the output directory when one is given and exists, else under PATH when
\* PATH is a folder, else under the parent directory of the file PATH.
C20_DestinationRoot ==
  \A w \in Workers :
    wpc[w] = "move" =>
      FullPath(wItem[w]) = PathJoin2(PromisedRoot, ProfilePath[wItem[w], files[wItem[w]]])

\* C21: when PATH is a single music file with a whitelisted extension, the
\* main thread is not ended by an exception after it has put the file on
\* the queue: it goes on to join().
C21_SingleFileReachesJoin ==
  (~cfg.isdir /\ nput = 1 /\ Whitelisted[1, files[1]]) => mpc # "crashed"

\* the directories left by a cleanup below root: those not strictly below
\* root and those with a file somewhere below them
Cleaned(dirs, fl, root) ==
  { d \in dirs : ~Under(d, root) \/ \E f \in fl : Under(f[1], d) }

\* C22: the step that ends the music run changes no file; it removes
\* directories only when PATH is a folder and --recurse and --squash are
\* both set, and then exactly the directories strictly below PATH that have
\* no file anywhere below them (empty, or empty once their empty
\* subdirectories are gone): PATH itself, directories outside PATH and
\* directories holding a file stay.
C22_SquashPass ==
  [][(mpc = "squash" /\ mpc' = "done") =>
       /\ fsFiles' = fsFiles
       /\ fsDirs' = IF cfg.isdir /\ cfg.recurse /\ cfg.squash
                     THEN Cleaned(fsDirs, fsFiles, RootDir) ELSE fsDirs
       /\ RootDir \in fsDirs => RootDir \in fsDirs'
       /\ \A f \in fsFiles : \A d \in fsDirs : Under(f[1], d) => d \in fsDirs']_vars

\* a run with the cleanup has ended: the whole chain of directories made
\* for a file whose rename was refused is gone, while a directory below
\* PATH that holds a file is still there
C22_Witness ==
  /\ mpc = "done"
  /\ cfg.isdir /\ cfg.recurse /\ cfg.squash
  /\ \E i \in Items :
       /\ files[i].fsfail = "rename"
       /\ istate[i] = "failed"
       /\ Ancestors(FullPath(i)) \cap fsDirs = {RootDir}
  /\ \E d \in fsDirs : Under(d, RootDir)

\* the same for the step that ends the photo run, lines 216-222 of pssort.py
C22_PhotoSquashPass ==
  [][(ppc = "squash" /\ ppc' = "done") =>
       /\ pFiles' = pFiles
       /\ pDirs' = IF RootDir \in pDirs /\ pcfg.recurse /\ pcfg.squash
                    THEN Cleaned(pDirs, pFiles, RootDir) ELSE pDirs
       /\ RootDir \in pDirs => RootDir \in pDirs']_vars

(***************************************************************************)
(* The sanitizers and the placement rules on their own                     *)
(***************************************************************************)
\* the characters of the strings sanitize is tried on
SanitizeAlphabet == {"a", " ", "!", "\t"}

\* every string of up to MaxLen of these characters, some strings with
\* other letters, digits, periods, underscores and newlines, and None
SanitizeInputs ==
  { Some(x) : x \in UNION { [1..n -> SanitizeAlphabet] : n \in 0..MaxLen } }
  \cup { Some(<<"A", "\n", "\n", "7", "ä">>), Some(<<"\n", "b", " ", "\n", " ", "Z", "\n">>),
         Some(<<" ", ".", "_", " ", "?", " ", "_", ".", " ">>), NoneVal }

SanitizeArgs ==
  { [fn |-> f, string |-> x] : f \in {"sanitize", "ps_sanitize"}, x \in SanitizeInputs }

\* mssort.sanitize(string)
CallSanitize ==
  /\ fnPc = "called"
  /\ fnArg.fn = "sanitize"
  /\ fnRes' = sanitize(fnArg.string)
  /\ fnPc' = "returned"
  /\ UNCHANGED <<fnArg, musicVars, queueVars, thumbVars, photoVars, tagVars>>

\* pssort.sanitize(string)
CallPsSanitize ==
  /\ fnPc = "called"
  /\ fnArg.fn = "ps_sanitize"
  /\ fnRes' = ps_sanitize(PyStr(fnArg.string))
  /\ fnPc' = "returned"
  /\ UNCHANGED <<fnArg, musicVars, queueVars, thumbVars, photoVars, tagVars>>

\* sanitize applied to a result of its own
Resanitized(fn, y) == IF fn = "sanitize" THEN sanitize(Some(y)) ELSE ps_sanitize(y)

\* C12: what either sanitize returns is left as it is by sanitize, holds only
\* alphanumeric characters, spaces, periods and underscores, neither starts
\* nor ends with a space and has no two spaces in a row.
C12_SanitizeIdempotentAndClean ==
  (fnPc = "returned" /\ fnArg.fn \in {"sanitize", "ps_sanitize"}) =>
    /\ Resanitized(fnArg.fn, fnRes) = fnRes
    /\ \A k \in DOMAIN fnRes : IsAlnum(fnRes[k]) \/ fnRes[k] \in {" ", ".", "_"}
    /\ fnRes # <<>> => fnRes[1] # " " /\ fnRes[Len(fnRes)] # " "
    /\ \A k \in 1..(Len(fnRes) - 1) : ~(fnRes[k] = " " /\ fnRes[k + 1] = " ")

\* sanitize has returned for a string in which a removed character stood
\* between two spaces
C12_Witness ==
  /\ fnPc = "returned"
  /\ fnArg.fn = "sanitize"
  /\ fnArg.string = Some(<<"a", " ", "!", " ", "a">>)
  /\ fnRes = <<"a", " ", "a">>

\* the tags of a file of which only these four are present or absent
PathTags(band, artist, compilation, album) ==
  [t \in Range(MusicTags) |->
     CASE t = "Band" -> band
       [] t = "Artist" -> artist
       [] t = "Compilation" -> compilation
       [] t = "Album" -> album
       [] OTHER -> NoneVal]

PathArgs ==
  { [fn |-> "get_new_path", file |-> <<"x", ".", "m", "p", "3">>, tags |-> PathTags(b, a, c, al)] :
      b \in {NoneVal,
             Some(<<"B", "e", "a", "t", "l", "e", "s", ",", " ", "T", "h", "e">>),
             Some(<<"!", "!">>),
             Some(<<".", ".">>)},
      a \in {NoneVal,
             Some(<<"T", "h", "e", " ", "W", "h", "o">>),
             Some(<<"t", "h", "e", "T", "h", "e">>)},
      c \in {NoneVal, Some(<<"1">>), Some(<<"Y", "e", "s">>), Some(<<"0">>)},
      al \in {NoneVal,
              Some(<<"A", "b", "b", "e", "y", " ", "R", "o", "a", "d">>),
              Some(<<"N", "o", "w", " ", "8", "0">>),
              Some(<<"?", "?">>),
              Some(<<".", ".">>)} }

\* mssort.get_new_path(file, tags)
CallGetNewPath ==
  /\ fnPc = "called"
  /\ fnArg.fn = "get_new_path"
  /\ fnRes' = get_new_path(fnArg.file, fnArg.tags)
  /\ fnPc' = "returned"
  /\ UNCHANGED <<fnArg, musicVars, queueVars, thumbVars, photoVars, tagVars>>

\* C13: the music directory is letter/artist/album, where the artist is the
\* Band, else "Compilation" for a Compilation tag of "1" or "Yes" (before a
\* present Artist), else the Artist, else "Unknown"; the album is the Album
\* or "Unknown"; the letter is the first alphanumeric character, upper-cased,
\* of the lower-cased artist without any "the", or "#"; artist and album are
\* sanitized. Band "Beatles, The" with album "Abbey Road" is placed in
\* "B/Beatles The/Abbey Road", a compilation under "C/Compilation".
C13_MusicPlacement ==
  (fnPc = "returned" /\ fnArg.fn = "get_new_path") =>
    LET tags == fnArg.tags
        artist == IF tags["Band"] # NoneVal THEN tags["Band"].s
                  ELSE IF tags["Compilation"] \in {Some(<<"1">>), Some(<<"Y", "e", "s">>)}
                       THEN <<"C", "o", "m", "p", "i", "l", "a", "t", "i", "o", "n">>
                  ELSE IF tags["Artist"] # NoneVal THEN tags["Artist"].s
                  ELSE <<"U", "n", "k", "n", "o", "w", "n">>
        album == IF tags["Album"] # NoneVal THEN tags["Album"].s ELSE <<"U", "n", "k", "n", "o", "w", "n">>
        rest == SelectSeq(Replace(Lower(artist), <<"t", "h", "e">>, <<>>), IsAlnum)
        letter == IF rest = <<>> THEN <<"#">> ELSE Upper(<<rest[1]>>)
    IN /\ fnRes = PathJoin2(PathJoin2(letter, sanitize(Some(artist))), sanitize(Some(album)))
       /\ (tags["Band"] = Some(<<"B", "e", "a", "t", "l", "e", "s", ",", " ", "T", "h", "e">>) /\ tags["Album"] = Some(<<"A", "b", "b", "e", "y", " ", "R", "o", "a", "d">>)) =>
            fnRes = <<"B", "/", "B", "e", "a", "t", "l", "e", "s", " ", "T", "h", "e", "/", "A", "b", "b", "e", "y", " ", "R", "o", "a", "d">>
       /\ (tags["Band"] = NoneVal /\ tags["Artist"] = NoneVal
           /\ tags["Compilation"] = Some(<<"1">>) /\ tags["Album"] = Some(<<"N", "o", "w", " ", "8", "0">>)) =>
            fnRes = <<"C", "/", "C", "o", "m", "p", "i", "l", "a", "t", "i", "o", "n", "/", "N", "o", "w", " ", "8", "0">>
       /\ (tags["Band"] = NoneVal /\ tags["Artist"] = Some(<<"T", "h", "e", " ", "W", "h", "o">>)
           /\ tags["Compilation"] = Some(<<"0">>) /\ tags["Album"] = NoneVal) =>
            fnRes = <<"W", "/", "T", "h", "e", " ", "W", "h", "o", "/", "U", "n", "k", "n", "o", "w", "n">>

\* get_new_path has returned for a compilation whose Artist tag is present
C13_Witness ==
  /\ fnPc = "returned"
  /\ fnArg.fn = "get_new_path"
  /\ fnArg.tags["Band"] = NoneVal
  /\ fnArg.tags["Artist"] = Some(<<"T", "h", "e", " ", "W", "h", "o">>)
  /\ fnArg.tags["Compilation"] = Some(<<"Y", "e", "s">>)
  /\ fnRes = <<"C", "/", "C", "o", "m", "p", "i", "l", "a", "t", "i", "o", "n", "/", "A", "b", "b", "e", "y", " ", "R", "o", "a", "d">>

\* C14: the music directory always has exactly three segments, none of them
\* empty, also when sanitize leaves nothing of the artist or of the album.
C14_ThreeSegments ==
  (fnPc = "returned" /\ fnArg.fn = "get_new_path") =>
    /\ Len(Split(fnRes, "/")) = 3
    /\ \A k \in DOMAIN Split(fnRes, "/") : Split(fnRes, "/")[k] # <<>>

\* the tags of a file of which only these five are present or absent
NameTags(title, track, tracknumber, partofset, discnumber) ==
  [t \in Range(MusicTags) |->
     CASE t = "Title" -> title
       [] t = "Track" -> track
       [] t = "TrackNumber" -> tracknumber
       [] t = "PartOfSet" -> partofset
       [] t = "DiscNumber" -> discnumber
       [] OTHER -> NoneVal]

NameArgs ==
  { [fn |-> "get_new_name", file |-> f, tags |-> NameTags(ti, tr, tn, ps, dn)] :
      f \in {<<"x", ".", "M", "P", "3">>,
             <<"a", "/", "b", ".", "c", "/", "y">>,
             <<"r", "/", "z", ".", "F", "l", "a", "c">>},
      ti \in {NoneVal,
              Some(<<"C", "o", "m", "e", " ", "T", "o", "g", "e", "t", "h", "e", "r">>),
              Some(<<"a", "!", "b">>)},
      tr \in {NoneVal, Some(<<"1", "/", "1", "7">>), Some(<<"5", "/", "1", "2">>), Some(<<"1", "2">>), Some(<<"+">>)},
      tn \in {NoneVal, Some(<<"3", " ", "o", "f", " ", "9">>), Some(<<"7">>)},
      ps \in {NoneVal, Some(<<"1">>), Some(<<"2">>), Some(<<"3">>), Some(<<"x">>),
              Some(<<"1", "/", "1">>), Some(<<"1", "/", "2">>),
              Some(<<"2", "/", "1">>), Some(<<"2", "/", "2">>)},
      dn \in {NoneVal,
              Some(<<"2", " ", "o", "f", " ", "2">>),
              Some(<<"1", " ", "o", "f", " ", "2">>)} }

\* mssort.get_new_name(file, tags)
CallGetNewName ==
  /\ fnPc = "called"
  /\ fnArg.fn = "get_new_name"
  /\ fnRes' = get_new_name(fnArg.file, fnArg.tags)
  /\ fnPc' = "returned"
  /\ UNCHANGED <<fnArg, musicVars, queueVars, thumbVars, photoVars, tagVars>>

\* the track number a file is named by: the Track tag, else the TrackNumber
\* tag with " of " read as "/", else none
NamedTrack(tags) ==
  IF tags["Track"] # NoneVal THEN tags["Track"]
  ELSE IF tags["TrackNumber"] # NoneVal
       THEN Some(Replace(tags["TrackNumber"].s, <<" ", "o", "f", " ">>, <<"/">>))
  ELSE NoneVal

\* s with zeros put in front of it up to the width
RECURSIVE LeftPad(_, _)
LeftPad(s, width) == IF Len(s) >= width THEN s ELSE LeftPad(<<"0">> \o s, width)

\* the track number without the "/total" part, two digits wide
PaddedTrack(tags) ==
  IF NamedTrack(tags) = NoneVal THEN <<"0", "0">>
  ELSE LeftPad(Split(NamedTrack(tags).s, "/")[1], 2)

\* the track number is not a bare sign
Unsigned(tags) ==
  NamedTrack(tags) # NoneVal => Split(NamedTrack(tags).s, "/")[1] \notin {<<"+">>, <<"-">>}

\* C15: for a file without disc number tags whose track number is not a
\* bare sign, the name is the track field, a space, the sanitized title and
\* the lower-cased extension of the file; the track field is the part of
\* Track before "/" padded with zeros on the left to two characters, the
\* same of TrackNumber (" of " read as "/") when Track is absent, "00" when
\* both are; an absent title does not fail but is named "None". Track
\* "1/17" titled "Come Together" in x.MP3 is named "01 Come Together.mp3".
C15_TrackAndTitle ==
  (/\ fnPc = "returned"
   /\ fnArg.fn = "get_new_name"
   /\ fnArg.tags["PartOfSet"] = NoneVal
   /\ fnArg.tags["DiscNumber"] = NoneVal
   /\ Unsigned(fnArg.tags)) =>
    LET tags == fnArg.tags IN
    /\ fnRes.raised = ""
    /\ fnRes.value = PaddedTrack(tags) \o <<" ">> \o sanitize(tags["Title"])
                        \o Lower(SplitExt(fnArg.file))
    /\ (tags["Track"] = Some(<<"1", "/", "1", "7">>) /\ tags["Title"] = Some(<<"C", "o", "m", "e", " ", "T", "o", "g", "e", "t", "h", "e", "r">>)
        /\ fnArg.file = <<"x", ".", "M", "P", "3">>) =>
         fnRes.value = <<"0", "1", " ", "C", "o", "m", "e", " ", "T", "o", "g", "e", "t", "h", "e", "r", ".", "m", "p", "3">>
    /\ (tags["Track"] = NoneVal /\ tags["TrackNumber"] = Some(<<"3", " ", "o", "f", " ", "9">>)
        /\ tags["Title"] = NoneVal /\ fnArg.file = <<"r", "/", "z", ".", "F", "l", "a", "c">>) =>
         fnRes.value = <<"0", "3", " ", "N", "o", "n", "e", ".", "f", "l", "a", "c">>
    /\ (tags["Track"] = NoneVal /\ tags["TrackNumber"] = NoneVal
        /\ tags["Title"] = Some(<<"a", "!", "b">>) /\ fnArg.file = <<"a", "/", "b", ".", "c", "/", "y">>) =>
         fnRes.value = <<"0", "0", " ", "a", "b">>

\* get_new_name has returned for a file with a TrackNumber and no Track,
\* Title or disc number
C15_Witness ==
  /\ fnPc = "returned"
  /\ fnArg.fn = "get_new_name"
  /\ fnArg.tags = NameTags(NoneVal, NoneVal, Some(<<"3", " ", "o", "f", " ", "9">>), NoneVal, NoneVal)
  /\ fnArg.file = <<"x", ".", "M", "P", "3">>
  /\ fnRes = Returned(<<"0", "3", " ", "N", "o", "n", "e", ".", "m", "p", "3">>)

\* the PartOfSet tag is one or two numbers
NumericSet(tags) ==
  /\ tags["PartOfSet"] # NoneVal
  /\ Len(Split(tags["PartOfSet"].s, "/")) \in {1, 2}
  /\ \A k \in DOMAIN Split(tags["PartOfSet"].s, "/") : IntOk(Split(tags["PartOfSet"].s, "/")[k])

\* C16: for a file with a track number and a PartOfSet tag of one or two
\* numbers the track field begins with the first number and "-" exactly
\* when the tag is one number above 1 or two numbers both above 1; no other
\* PartOfSet tag of that form ("1", "1/1", "1/2", "2/1") gives a prefix or
\* an error. Track "5/12" is "2-05" on disc "2/2" and "05" on disc "1/1".
C16_DiscPrefix ==
  (/\ fnPc = "returned"
   /\ fnArg.fn = "get_new_name"
   /\ NamedTrack(fnArg.tags) # NoneVal
   /\ Unsigned(fnArg.tags)
   /\ NumericSet(fnArg.tags)) =>
    LET tags == fnArg.tags
        discs == Split(tags["PartOfSet"].s, "/")
        rest == <<" ">> \o sanitize(tags["Title"]) \o Lower(SplitExt(fnArg.file))
        prefixed == \/ Len(discs) = 1 /\ IntValue(discs[1]) > 1
                    \/ Len(discs) = 2 /\ IntValue(discs[1]) > 1 /\ IntValue(discs[2]) > 1
    IN /\ fnRes.raised = ""
       /\ prefixed => fnRes.value = discs[1] \o <<"-">> \o PaddedTrack(tags) \o rest
       /\ ~prefixed => fnRes.value = PaddedTrack(tags) \o rest
       /\ (tags["Track"] = Some(<<"5", "/", "1", "2">>) /\ tags["PartOfSet"] = Some(<<"2", "/", "2">>)) =>
            fnRes.value = <<"2", "-", "0", "5">> \o rest
       /\ (tags["Track"] = Some(<<"5", "/", "1", "2">>) /\ tags["PartOfSet"] = Some(<<"1", "/", "1">>)) =>
            fnRes.value = <<"0", "5">> \o rest
       /\ (tags["Track"] = Some(<<"5", "/", "1", "2">>) /\ tags["PartOfSet"] \in {Some(<<"1">>), Some(<<"1", "/", "2">>), Some(<<"2", "/", "1">>)}) =>
            fnRes.value = <<"0", "5">> \o rest

\* get_new_name has returned without a prefix for the first of two discs
\* and with one for the third disc
C16_Witness ==
  /\ fnPc = "returned"
  /\ fnArg.fn = "get_new_name"
  /\ fnArg.tags["Track"] = Some(<<"5", "/", "1", "2">>)
  /\ fnArg.tags["Title"] = Some(<<"C", "o", "m", "e", " ", "T", "o", "g", "e", "t", "h", "e", "r">>)
  /\ fnArg.file = <<"x", ".", "M", "P", "3">>
  /\ \/ fnArg.tags["PartOfSet"] = Some(<<"3">>) /\ fnRes = Returned(<<"3", "-", "0", "5", " ", "C", "o", "m", "e", " ", "T", "o", "g", "e", "t", "h", "e", "r", ".", "m", "p", "3">>)
     \/ fnArg.tags["PartOfSet"] = Some(<<"2", "/", "1">>) /\ fnRes = Returned(<<"0", "5", " ", "C", "o", "m", "e", " ", "T", "o", "g", "e", "t", "h", "e", "r", ".", "m", "p", "3">>)

\* C17: a file without PartOfSet tag but with a DiscNumber tag is named as
\* a file whose PartOfSet tag is that DiscNumber with " of " read as "/":
\* track "5/12" of disc "2 of 2" has the track field "2-05".
C17_DiscNumberFallback ==
  (/\ fnPc = "returned"
   /\ fnArg.fn = "get_new_name"
   /\ fnArg.tags["PartOfSet"] = NoneVal
   /\ fnArg.tags["DiscNumber"] # NoneVal) =>
    fnRes = get_new_name(fnArg.file,
              [fnArg.tags EXCEPT !["PartOfSet"] =
                 Some(Replace(fnArg.tags["DiscNumber"].s, <<" ", "o", "f", " ">>, <<"/">>))])

\* the dates and keywords the photo rules are tried on
PhotoDates ==
  {[Y |-> 2015, m |-> 9, d |-> 28], [Y |-> 2019, m |-> 3, d |-> 7],
   [Y |-> 2020, m |-> 12, d |-> 1]}

KeywordLists ==
  UNION { [1..n -> {<<"p", "a", "r", "e", "n", "t", ":", "B", "i", "r", "t", "h", "d", "a", "y", "s">>,
                    <<"p", "a", "r", "e", "n", "t", ":", ".", ".">>,
                    <<"p", "a", "r", "e", "n", "t", ":", "P", "2">>,
                    <<"a", "l", "b", "u", "m", ":", "M", "y", " ", "B", "i", "r", "t", "h", "d", "a", "y">>,
                    <<"a", "l", "b", "u", "m", ":", "2", "0", "1", "5", " ", "-", " ", "M", "y", " ", "B", "i", "r", "t", "h", "d", "a", "y">>,
                    <<"a", "l", "b", "u", "m", ":", "2", "0", "1", "5", " ", "-", "x">>,
                    <<"h", "a", "z", "e", "l", ":", "n", "o", " ", "m", "o", "n", "t", "h">>,
                    <<"h", "a", "z", "e", "l", ":", "n", "o", " ", "m", "o", "n", "t", "h", "s">>,
                    <<"t", "a", "g">>}] :
          n \in 0..MaxKeywords }

PhotoPathArgs ==
  { [fn |-> "ps_get_new_path", file |-> <<"r", "/", "B", "i", "r", "t", "h", "d", "a", "y", ".", "j", "p", "g">>,
     tags |-> [CreateDate |-> date, Keywords |-> keywords]] :
      date \in PhotoDates, keywords \in KeywordLists }

\* pssort.get_new_path(file, tags)
CallPsGetNewPath ==
  /\ fnPc = "called"
  /\ fnArg.fn = "ps_get_new_path"
  /\ fnRes' = ps_get_new_path(fnArg.tags.CreateDate, fnArg.tags.Keywords)
  /\ fnPc' = "returned"
  /\ UNCHANGED <<fnArg, musicVars, queueVars, thumbVars, photoVars, tagVars>>

\* the keywords after which no keyword with the prefix comes earlier
FirstOf(keywords, prefix) ==
  { k \in DOMAIN keywords :
      /\ StartsWith(keywords[k], prefix)
      /\ \A j \in 1..(k - 1) : ~StartsWith(keywords[j], prefix) }

\* C18: the photo directory is the sanitized parent joined with the
\* sanitized album: the parent is the text after "parent:" of the first
\* such keyword, else the four-digit year; the album is the text after
\* "album:" of the first such keyword, without a leading "NNNN - ", else
\* the full name of the month; the two-digit month and a space come before
\* the album unless a keyword is exactly "hazel:no month". A photo of
\* 2015:09:28 with "album:My Birthday" goes to "2015/09 My Birthday", with
\* "parent:Birthdays", "album:2015 - My Birthday", "hazel:no month" to
\* "Birthdays/My Birthday".
C18_PhotoPlacement ==
  (fnPc = "returned" /\ fnArg.fn = "ps_get_new_path") =>
    LET date == fnArg.tags.CreateDate
        keywords == fnArg.tags.Keywords
        parents == FirstOf(keywords, <<"p", "a", "r", "e", "n", "t", ":">>)
        albums == FirstOf(keywords, <<"a", "l", "b", "u", "m", ":">>)
        parent == IF parents = {} THEN StrfY(date)
                  ELSE Drop(keywords[CHOOSE k \in parents : TRUE], 7)
        named == IF albums = {} THEN <<>> ELSE Drop(keywords[CHOOSE k \in albums : TRUE], 6)
        yeared == /\ Len(named) >= 7
                  /\ \A k \in 1..4 : named[k] \in Range(DigitChars)
                  /\ named[5] = " " /\ named[6] = "-" /\ named[7] = " "
        album == IF albums = {} THEN MonthNames[date.m]
                 ELSE IF yeared THEN Drop(named, 7) ELSE named
        monthed == IF \E k \in DOMAIN keywords : keywords[k] = <<"h", "a", "z", "e", "l", ":", "n", "o", " ", "m", "o", "n", "t", "h">>
                   THEN album ELSE Strfm(date) \o <<" ">> \o album
    IN /\ fnRes = PathJoin2(ps_sanitize(parent), ps_sanitize(monthed))
       /\ (date = [Y |-> 2015, m |-> 9, d |-> 28] /\ keywords = <<<<"a", "l", "b", "u", "m", ":", "M", "y", " ", "B", "i", "r", "t", "h", "d", "a", "y">>>>) =>
            fnRes = <<"2", "0", "1", "5", "/", "0", "9", " ", "M", "y", " ", "B", "i", "r", "t", "h", "d", "a", "y">>
       /\ (keywords = <<<<"p", "a", "r", "e", "n", "t", ":", "B", "i", "r", "t", "h", "d", "a", "y", "s">>,
                        <<"a", "l", "b", "u", "m", ":", "2", "0", "1", "5", " ", "-", " ", "M", "y", " ", "B", "i", "r", "t", "h", "d", "a", "y">>,
                        <<"h", "a", "z", "e", "l", ":", "n", "o", " ", "m", "o", "n", "t", "h">>>>) =>
            fnRes = <<"B", "i", "r", "t", "h", "d", "a", "y", "s", "/", "M", "y", " ", "B", "i", "r", "t", "h", "d", "a", "y">>
       /\ (date = [Y |-> 2015, m |-> 9, d |-> 28] /\ keywords = <<>>) =>
            fnRes = <<"2", "0", "1", "5", "/", "0", "9", " ", "S", "e", "p", "t", "e", "m", "b", "e", "r">>
       /\ (date = [Y |-> 2020, m |-> 12, d |-> 1] /\ keywords = <<<<"h", "a", "z", "e", "l", ":", "n", "o", " ", "m", "o", "n", "t", "h", "s">>, <<"a", "l", "b", "u", "m", ":", "2", "0", "1", "5", " ", "-", "x">>>>) =>
            fnRes = <<"2", "0", "2", "0", "/", "1", "2", " ", "2", "0", "1", "5", " ", "x">>

\* get_new_path has returned for the photo with a parent, an album with a
\* year in front and no month
C18_Witness ==
  /\ fnPc = "returned"
  /\ fnArg.fn = "ps_get_new_path"
  /\ fnArg.tags.Keywords = <<<<"p", "a", "r", "e", "n", "t", ":", "B", "i", "r", "t", "h", "d", "a", "y", "s">>,
                             <<"a", "l", "b", "u", "m", ":", "2", "0", "1", "5", " ", "-", " ", "M", "y", " ", "B", "i", "r", "t", "h", "d", "a", "y">>,
                             <<"h", "a", "z", "e", "l", ":", "n", "o", " ", "m", "o", "n", "t", "h">>>>
  /\ fnRes = <<"B", "i", "r", "t", "h", "d", "a", "y", "s", "/", "M", "y", " ", "B", "i", "r", "t", "h", "d", "a", "y">>

\* the files and dates the photo name rule is tried on
PhotoNameArgs ==
  { [fn |-> "ps_get_new_name", file |-> f, tags |-> [CreateDate |-> date, Keywords |-> <<>>]] :
      f \in {<<"B", "i", "r", "t", "h", "d", "a", "y", ".", "j", "p", "g">>,
             <<"r", "/", "s", "/", "p", ".", "j", "p", "g">>,
             <<"2", "0", "1", "5", "-", "0", "9", "-", "2", "8", "_", "B", "i", "r", "t", "h", "d", "a", "y", ".", "j", "p", "g">>,
             <<"r", "/", "2", "0", "2", "0", "-", "0", "1", "-", "0", "2", "_", "a", ".", "p", "n", "g">>,
             <<"2", "0", "1", "5", "-", "9", "-", "2", "8", "_", "x", ".", "j", "p", "g">>,
             <<"2", "0", "1", "5", "0", "9", "2", "8", "_", "x", ".", "j", "p", "g">>,
             <<"r", "/", "2", "0", "1", "5", "-", "0", "9", "-", "2", "8">>},
      date \in PhotoDates }

\* pssort.get_new_name(file, tags)
CallPsGetNewName ==
  /\ fnPc = "called"
  /\ fnArg.fn = "ps_get_new_name"
  /\ fnRes' = ps_get_new_name(fnArg.file, fnArg.tags.CreateDate)
  /\ fnPc' = "returned"
  /\ UNCHANGED <<fnArg, musicVars, queueVars, thumbVars, photoVars, tagVars>>

\* four digits, "-", two digits, "-", two digits, "_" at the start
DatedName(name) ==
  /\ Len(name) >= 11
  /\ \A k \in 1..11 :
       IF k \in {5, 8} THEN name[k] = "-"
       ELSE IF k = 11 THEN name[k] = "_"
       ELSE name[k] \in Range(DigitChars)

\* C19: the new name of a photo is its file name when that starts with
\* "YYYY-MM-DD_", else the ISO date of CreateDate, "_" and the file name;
\* so the new name always starts with "YYYY-MM-DD_", and get_new_name of a
\* new name, with any CreateDate, is that name again. "Birthday.jpg" of
\* 2015:09:28 becomes "2015-09-28_Birthday.jpg".
C19_PhotoName ==
  (fnPc = "returned" /\ fnArg.fn = "ps_get_new_name") =>
    LET date == fnArg.tags.CreateDate
        filename == BaseName(fnArg.file)
    IN /\ DatedName(filename) => fnRes = filename
       /\ ~DatedName(filename) =>
            fnRes = Zfill(Digits(date.Y), 4) \o <<"-">> \o Zfill(Digits(date.m), 2)
                      \o <<"-">> \o Zfill(Digits(date.d), 2) \o <<"_">> \o filename
       /\ DatedName(fnRes)
       /\ \A other \in PhotoDates : ps_get_new_name(fnRes, other) = fnRes
       /\ (fnArg.file = <<"B", "i", "r", "t", "h", "d", "a", "y", ".", "j", "p", "g">> /\ date = [Y |-> 2015, m |-> 9, d |-> 28]) =>
            fnRes = <<"2", "0", "1", "5", "-", "0", "9", "-", "2", "8", "_", "B", "i", "r", "t", "h", "d", "a", "y", ".", "j", "p", "g">>
       /\ (fnArg.file = <<"r", "/", "2", "0", "2", "0", "-", "0", "1", "-", "0", "2", "_", "a", ".", "p", "n", "g">>) => fnRes = <<"2", "0", "2", "0", "-", "0", "1", "-", "0", "2", "_", "a", ".", "p", "n", "g">>

\* get_new_name has returned for a file whose name starts with a date
\* written with a one-digit month
C19_Witness ==
  /\ fnPc = "returned"
  /\ fnArg.fn = "ps_get_new_name"
  /\ fnArg.file = <<"2", "0", "1", "5", "-", "9", "-", "2", "8", "_", "x", ".", "j", "p", "g">>
  /\ fnRes = <<"2", "0", "1", "9", "-", "0", "3", "-", "0", "7", "_", "2", "0", "1", "5", "-", "9", "-", "2", "8", "_", "x", ".", "j", "p", "g">>

\* the tags of a file of which only these five are present or absent
MoveTags(band, album, title, track, partofset) ==
  [t \in Range(MusicTags) |->
     CASE t = "Band" -> band
       [] t = "Album" -> album
       [] t = "Title" -> title
       [] t = "Track" -> track
       [] t = "PartOfSet" -> partofset
       [] OTHER -> NoneVal]

\* files in the tree, one of them where a run would put it, one without a
\* music extension, and the root their directories are made under
MoveArgs ==
  { [fn |-> "music_worker", root |-> r, file |-> f, tags |-> MoveTags(b, al, ti, tr, ps)] :
      r \in {RootDir, OutDir},
      f \in {<<"r", "/", "1", ".", "m", "p", "3">>,
             <<"r", "/", "s", "/", "2", ".", "M", "P", "3">>,
             <<"r", "/", "A", "/", "a", "b", "/", "c", "/", "0", "1", " ", "t", ".", "m", "p", "3">>,
             <<"r", "/", "y">>},
      b \in {NoneVal, Some(<<"a", "b">>), Some(<<"!", "!">>)},
      al \in {NoneVal, Some(<<"c">>), Some(<<"?", "?">>)},
      ti \in {NoneVal, Some(<<"t">>), Some(<<"a", ".", "b">>)},
      tr \in {NoneVal, Some(<<"1", "/", "9">>)},
      ps \in {NoneVal, Some(<<"2", "/", "2">>), Some(<<"x">>)} }

\* lines 164-173 of music_worker: the path the file is renamed to, with
\* full_path made under root
MovedTo(root, file, tags) ==
  IF get_new_name(file, tags).raised # "" THEN get_new_name(file, tags)
  ELSE Returned(PathJoin2(PathJoin2(root, get_new_path(file, tags)),
                          get_new_name(file, tags).value))

CallMusicWorker ==
  /\ fnPc = "called"
  /\ fnArg.fn = "music_worker"
  /\ fnRes' = MovedTo(fnArg.root, fnArg.file, fnArg.tags)
  /\ fnPc' = "returned"
  /\ UNCHANGED <<fnArg, musicVars, queueVars, thumbVars, photoVars, tagVars>>

C27_StaysInsideRoot ==
  (fnPc = "returned" /\ fnArg.fn \in {"get_new_path", "ps_get_new_path"}) =>
    \A k \in DOMAIN Split(fnRes, "/") :
      Split(fnRes, "/")[k] \notin {<<".">>, <<".", ".">>}

(***************************************************************************)
(* One call of one of the functions above, on any of the arguments         *)
(***************************************************************************)
FnArgs ==
  SanitizeArgs \cup PathArgs \cup NameArgs \cup PhotoPathArgs \cup PhotoNameArgs
    \cup MoveArgs

InitFn ==
  /\ fnArg \in FnArgs
  /\ fnPc = "called"
  /\ fnRes = <<>>
  /\ cfg = [isdir |-> TRUE, recurse |-> TRUE, squash |-> FALSE, outdir |-> NoneVal]
  /\ files = <<>>
  /\ fsFiles = {}
  /\ fsDirs = {}
  /\ wErr = <<>>
  /\ QueueInit
  /\ ThumbsIdle
  /\ PhotoIdle
  /\ TagsIdle

NextFn ==
  \/ CallSanitize
  \/ CallPsSanitize
  \/ CallGetNewPath
  \/ CallGetNewName
  \/ CallPsGetNewPath
  \/ CallPsGetNewName
  \/ CallMusicWorker

SpecFn == InitFn /\ [][NextFn]_vars

====
